---- MODULE Spec2Model ----
(***************************************************************************)
(* Model of the backtesting core of options-spread-analyzer:               *)
(*   backtesting/strategy_tracker.py  (StrategyTracker)                    *)
(*   backtesting/results_manager.py   (ResultsManager, the sqlite store)   *)
(*   backtesting/backtest_engine.py   (BacktestEngine)                     *)
(*                                                                         *)
(* Threads are Python threads under the GIL: a single list.append, a list  *)
(* copy and one sqlite statement are atomic, everything made of several    *)
(* bytecodes (the comprehension-then-rebind of remove_strategy, the read   *)
(* and the write-back of update_strategy_status, ...) is several steps.    *)
(***************************************************************************)
EXTENDS Integers, Sequences, FiniteSets, TLC

\* ------------------------------------------------------------------ bounds
NumRecords == 2
MaxTime == 1
MaxPasses == 2
MaxUpdates == 1
MaxRemoves == 1
MaxLoads == 1
MaxLoops == 2
MaxCallbacks == 2

\* Optional[...] = None / a value
None == <<>>
Some(v) == <<v>>

Ids == 1..NumRecords
Times == 0..MaxTime
NumCallers == 2
Callers == {<<"caller", i>> : i \in 1..NumCallers}
Loops == {<<"loop", i>> : i \in 1..MaxLoops}
Prices == {140, 160}
Statuses == {"pending", "active", "completed", "expired"}
StatusArgs == {"pending", "completed"}
CallbackIds == {"engine", "user"}


\* ------------------------------------------------------ the records' data
\* The fixed fields of the record with a given id (BacktestStrategy). Record 5
\* expires at time 0, the others at time 1.
strategy_name(id) ==
  CASE id % 3 = 1 -> "Call Debit Spread"
    [] id % 3 = 2 -> "Put Debit Spread"
    [] OTHER -> "Iron Condor"

Params(id) ==
  [id |-> id, symbol |-> id, strategy_name |-> strategy_name(id),
   expiration_date |-> IF id = 5 THEN 0 ELSE 1,
   lower_strike |-> 145, upper_strike |-> 155,
   initial_cost |-> 2, max_profit |-> 8, max_loss |-> 2, contracts |-> 1]

\* The fields a record gains on completion, and its status: what an in-memory
\* BacktestStrategy object and a row of the strategies table both hold.
NewFields ==
  [status |-> "active", exit_price |-> None, exit_date |-> None,
   final_pnl |-> None, result |-> None, exit_reason |-> None]

VARIABLES
  now,          \* datetime.now()
  db,           \* strategies table: id -> row, for the ids that have a row
  obj,          \* heap of BacktestStrategy objects: <<id, gen>> -> fields
  active,       \* StrategyTracker.active_strategies: list of object refs
  loads,        \* number of _row_to_strategy generations made so far
  created,      \* ids the engine has built a record for, oldest first
  monitoring,   \* StrategyTracker.monitoring
  monitor_thread, \* StrategyTracker.monitor_thread: None or Some(loop)
  callbacks,    \* StrategyTracker.callbacks
  loopArgs,     \* args bound to each started loop thread
  pc,           \* position of every thread
  loc,          \* locals of every thread
  prevPass,     \* per caller: ids its last finished call returned, if a pass
  completions,  \* how many times each id was appended to a processed list
  invoked,      \* per loop: callbacks invoked in the current dispatch
  cbTouched,    \* per loop: callbacks list changed during the dispatch
  calls         \* calls begun so far, of the kinds the model bounds

vars == <<now, db, obj, active, loads, created, monitoring, monitor_thread,
          callbacks, loopArgs, pc, loc, prevPass, completions,
          invoked, cbTouched, calls>>

monVars == <<monitoring, monitor_thread, callbacks, loopArgs, invoked, cbTouched>>

Threads == Callers \cup Loops

NoLocals ==
  [op |-> "", sid |-> 0, st |-> "", expired |-> <<>>, idx |-> 0,
   processed |-> <<>>, price |-> 0, tmp |-> <<>>, val |-> <<>>,
   snap |-> <<>>]

Init ==
  /\ now = 0
  /\ db = <<>>
  /\ obj = <<>>
  /\ active = <<>>
  /\ loads = 0
  /\ created = <<>>
  /\ monitoring = FALSE
  /\ monitor_thread = None
  /\ callbacks = <<>>
  /\ loopArgs = [l \in Loops |-> [interval |-> 0, func |-> None]]
  /\ pc = [t \in Threads |-> IF t \in Callers THEN "idle" ELSE "unborn"]
  /\ loc = [t \in Threads |-> NoLocals]
  /\ prevPass = [t \in Callers |-> {}]
  /\ completions = [i \in Ids |-> 0]
  /\ invoked = [l \in Loops |-> <<>>]
  /\ cbTouched = [l \in Loops |-> FALSE]
  /\ calls = [passes |-> 0, updates |-> 0, removes |-> 0]

\* ------------------------------------------------------------- helpers
IdOf(ref) == ref[1]
Range(s) == {s[i] : i \in 1..Len(s)}
SeqIds(s) == {IdOf(s[i]) : i \in 1..Len(s)}
Put(f, k, v) == [x \in (DOMAIN f) \cup {k} |-> IF x = k THEN v ELSE f[x]]
Count(s, id) == Cardinality({i \in 1..Len(s) : IdOf(s[i]) = id})

\* A caller's call of op(arg) returns val: the thread is at its return
\* statement, holding nothing but the value.
Return(t, op, arg, val) ==
  /\ pc' = [pc EXCEPT ![t] = "return"]
  /\ loc' = [loc EXCEPT ![t] = [NoLocals EXCEPT !.op = op, !.sid = arg, !.val = val]]

\* The caller has the value and is free for its next call.
Returned(t) ==
  /\ pc[t] = "return"
  /\ pc' = [pc EXCEPT ![t] = "idle"]
  /\ loc' = [loc EXCEPT ![t] = NoLocals]
  /\ prevPass' = [prevPass EXCEPT ![t] =
                    IF loc[t].op = "process_expired_strategies"
                    THEN loc[t].val ELSE {}]
  /\ UNCHANGED <<now, db, obj, active, loads, created, completions, calls, monVars>>

Goto(t, label) == pc' = [pc EXCEPT ![t] = label]

\* ----------------------------------------------------- ResultsManager
\* save_strategy: INSERT OR REPLACE of the whole row from the object's fields.
save_strategy(id, fields) == Put(db, id, fields)

\* update_strategy_result without "status = ?" in its SET clause.
update_strategy_result_keeps_status(id, exit_price, exit_date, final_pnl, result, reason) ==
  IF id \in DOMAIN db
  THEN [db EXCEPT ![id] =
          [status |-> db[id].status, exit_price |-> Some(exit_price),
           exit_date |-> Some(exit_date), final_pnl |-> Some(final_pnl),
           result |-> Some(result), exit_reason |-> Some(reason)]]
  ELSE db

\* update_strategy_result: UPDATE ... WHERE id = ?; no row, nothing changes.
update_strategy_result(id, exit_price, exit_date, final_pnl, result, reason) ==
  IF id \in DOMAIN db
  THEN [db EXCEPT ![id] =
          [status |-> "completed", exit_price |-> Some(exit_price),
           exit_date |-> Some(exit_date), final_pnl |-> Some(final_pnl),
           result |-> Some(result), exit_reason |-> Some(reason)]]
  ELSE db

\* ----------------------------------------------------- StrategyTracker
\* calculate_strategy_result with "* strategy.contracts" left out of the call
\* spread's pnl between the strikes.
calculate_strategy_result_call_per_share(s, current_price) ==
  LET between(intrinsic_value, n) ==
        LET pnl == (intrinsic_value - s.initial_cost) * n
        IN IF pnl > 0 THEN <<pnl, "profit", "Price between strikes - partial profit">>
           ELSE IF pnl < 0 THEN <<pnl, "loss", "Price between strikes - partial loss">>
           ELSE <<pnl, "breakeven", "Price at breakeven point">>
  IN IF s.strategy_name = "Call Debit Spread"
     THEN IF current_price >= s.upper_strike
          THEN <<s.max_profit, "profit", "Price above upper strike - max profit">>
          ELSE IF current_price <= s.lower_strike
          THEN <<-s.max_loss, "loss", "Price below lower strike - max loss">>
          ELSE between(current_price - s.lower_strike, 1)
     ELSE IF s.strategy_name = "Put Debit Spread"
     THEN IF current_price <= s.lower_strike
          THEN <<s.max_profit, "profit", "Price below lower strike - max profit">>
          ELSE IF current_price >= s.upper_strike
          THEN <<-s.max_loss, "loss", "Price above upper strike - max loss">>
          ELSE between(s.upper_strike - current_price, s.contracts)
     ELSE <<0, "breakeven", "Unknown strategy type">>

\* calculate_strategy_result with the put spread's intrinsic value taken as
\* for the call spread.
calculate_strategy_result_put_as_call(s, current_price) ==
  LET between(intrinsic_value) ==
        LET pnl == (intrinsic_value - s.initial_cost) * s.contracts
        IN IF pnl > 0 THEN <<pnl, "profit", "Price between strikes - partial profit">>
           ELSE IF pnl < 0 THEN <<pnl, "loss", "Price between strikes - partial loss">>
           ELSE <<pnl, "breakeven", "Price at breakeven point">>
  IN IF s.strategy_name = "Call Debit Spread"
     THEN IF current_price >= s.upper_strike
          THEN <<s.max_profit, "profit", "Price above upper strike - max profit">>
          ELSE IF current_price <= s.lower_strike
          THEN <<-s.max_loss, "loss", "Price below lower strike - max loss">>
          ELSE between(current_price - s.lower_strike)
     ELSE IF s.strategy_name = "Put Debit Spread"
     THEN IF current_price <= s.lower_strike
          THEN <<s.max_profit, "profit", "Price below lower strike - max profit">>
          ELSE IF current_price >= s.upper_strike
          THEN <<-s.max_loss, "loss", "Price above upper strike - max loss">>
          ELSE between(current_price - s.lower_strike)
     ELSE <<0, "breakeven", "Unknown strategy type">>

\* calculate_strategy_result without the final else: for an unknown
\* strategy_name pnl is unbound at the return, and the function's own
\* except returns the "Calculation error" triple.
calculate_strategy_result_no_else(s, current_price) ==
  LET between(intrinsic_value) ==
        LET pnl == (intrinsic_value - s.initial_cost) * s.contracts
        IN IF pnl > 0 THEN <<pnl, "profit", "Price between strikes - partial profit">>
           ELSE IF pnl < 0 THEN <<pnl, "loss", "Price between strikes - partial loss">>
           ELSE <<pnl, "breakeven", "Price at breakeven point">>
  IN IF s.strategy_name = "Call Debit Spread"
     THEN IF current_price >= s.upper_strike
          THEN <<s.max_profit, "profit", "Price above upper strike - max profit">>
          ELSE IF current_price <= s.lower_strike
          THEN <<-s.max_loss, "loss", "Price below lower strike - max loss">>
          ELSE between(current_price - s.lower_strike)
     ELSE IF s.strategy_name = "Put Debit Spread"
     THEN IF current_price <= s.lower_strike
          THEN <<s.max_profit, "profit", "Price below lower strike - max profit">>
          ELSE IF current_price >= s.upper_strike
          THEN <<-s.max_loss, "loss", "Price above upper strike - max loss">>
          ELSE between(s.upper_strike - current_price)
     ELSE <<0, "breakeven", "Calculation error">>

\* calculate_strategy_result: <<pnl, result, reason>>
calculate_strategy_result(s, current_price) ==
  LET between(intrinsic_value) ==
        LET pnl == (intrinsic_value - s.initial_cost) * s.contracts
        IN IF pnl > 0 THEN <<pnl, "profit", "Price between strikes - partial profit">>
           ELSE IF pnl < 0 THEN <<pnl, "loss", "Price between strikes - partial loss">>
           ELSE <<pnl, "breakeven", "Price at breakeven point">>
  IN IF s.strategy_name = "Call Debit Spread"
     THEN IF current_price >= s.upper_strike
          THEN <<s.max_profit, "profit", "Price above upper strike - max profit">>
          ELSE IF current_price <= s.lower_strike
          THEN <<-s.max_loss, "loss", "Price below lower strike - max loss">>
          ELSE between(current_price - s.lower_strike)
     ELSE IF s.strategy_name = "Put Debit Spread"
     THEN IF current_price <= s.lower_strike
          THEN <<s.max_profit, "profit", "Price below lower strike - max profit">>
          ELSE IF current_price >= s.upper_strike
          THEN <<-s.max_loss, "loss", "Price above upper strike - max loss">>
          ELSE between(s.upper_strike - current_price)
     ELSE <<0, "breakeven", "Unknown strategy type">>

\* get_expired_strategies without the "if strategy.expiration_date <= now".
get_expired_strategies_no_test == active

\* get_expired_strategies: the active records with expiration_date <= now.
get_expired_strategies ==
  SelectSeq(active, LAMBDA r : Params(IdOf(r)).expiration_date <= now)

\* remove_strategy with the comprehension's test dropped: nothing is removed.
remove_strategy_filter_removes_nothing(list, strategy_id) == list

\* remove_strategy's comprehension: the list without the entries of that id.
remove_strategy_filter(list, strategy_id) ==
  SelectSeq(list, LAMBDA r : IdOf(r) # strategy_id)

\* add_strategy with the append moved out of the "if save_strategy(...)".
add_strategy_save_always_appends(t, id) ==
  /\ pc[t] = "idle"
  /\ \A i \in 1..Len(created) : created[i] # id
  /\ created' = Append(created, id)
  /\ obj' = Put(obj, <<id, 0>>, NewFields)
  /\ active' = Append(active, <<id, 0>>)
  /\ \/ /\ db' = save_strategy(id, NewFields)
        /\ Return(t, "add_strategy", id, TRUE)
     \/ /\ db' = db
        /\ Return(t, "add_strategy", id, FALSE)
  /\ UNCHANGED <<now, loads, completions, calls, prevPass, monVars>>

\* add_strategy, first half: the engine builds the record (a fresh object),
\* save_strategy runs and either fails (return False) or succeeds.
add_strategy_save(t, id) ==
  /\ pc[t] = "idle"
  /\ \A i \in 1..Len(created) : created[i] # id
  /\ created' = Append(created, id)
  /\ obj' = Put(obj, <<id, 0>>, NewFields)
  /\ \/ /\ db' = save_strategy(id, NewFields)
        /\ pc' = [pc EXCEPT ![t] = "add_append"]
        /\ loc' = [loc EXCEPT ![t].sid = id]
     \/ /\ db' = db
        /\ Return(t, "add_strategy", id, FALSE)
  /\ UNCHANGED <<now, active, loads, completions, calls, prevPass,
                 monVars>>

\* add_strategy, second half: self.active_strategies.append(strategy).
add_strategy_append(t) ==
  /\ pc[t] = "add_append"
  /\ active' = Append(active, <<loc[t].sid, 0>>)
  /\ Return(t, "add_strategy", loc[t].sid, TRUE)
  /\ UNCHANGED <<now, db, obj, loads, created, completions, calls,
                 prevPass,
                 monVars>>

\* process_expired_strategies: expired_strategies = self.get_expired_strategies()
\* (snap keeps the fields the expired objects had then, for the statements
\* about what a pass leaves unchanged).
pe_begin(t) ==
  /\ loc' = [loc EXCEPT ![t] =
               [NoLocals EXCEPT !.op = "process_expired_strategies",
                                !.expired = get_expired_strategies, !.idx = 1,
                                !.snap = [r \in Range(get_expired_strategies) |-> obj[r]]]]
  /\ Goto(t, "pe_next")

process_expired_call(t) ==
  /\ pc[t] = "idle"
  /\ calls.passes < MaxPasses
  /\ calls' = [calls EXCEPT !.passes = @ + 1]
  /\ pe_begin(t)
  /\ UNCHANGED <<now, db, obj, active, loads, created, prevPass, completions, monVars>>

\* One iteration, lines 158-169: the price lookup raises (caught at 180, the
\* record is skipped) or returns a price; the result is computed and written
\* into the in-memory object.
process_expired_settle(t) ==
  /\ pc[t] = "pe_next"
  /\ loc[t].idx <= Len(loc[t].expired)
  /\ LET ref == loc[t].expired[loc[t].idx]
     IN \/ /\ loc' = [loc EXCEPT ![t].idx = @ + 1]
           /\ UNCHANGED <<obj, pc>>
        \/ \E p \in Prices :
             LET r == calculate_strategy_result(Params(IdOf(ref)), p)
             IN /\ obj' = [obj EXCEPT ![ref] =
                             [status |-> "completed", exit_price |-> Some(p),
                              exit_date |-> Some(now), final_pnl |-> Some(r[1]),
                              result |-> Some(r[2]), exit_reason |-> Some(r[3])]]
                /\ loc' = [loc EXCEPT ![t].price = p]
                /\ Goto(t, "pe_update")
  /\ UNCHANGED <<now, db, active, loads, created, prevPass, completions,
                 calls, monVars>>

\* Lines 172-176: update_strategy_result returns False (its own except) and
\* the record is skipped, or the row is updated and the record is appended
\* to processed.
process_expired_update(t) ==
  /\ pc[t] = "pe_update"
  /\ LET ref == loc[t].expired[loc[t].idx]
         id == IdOf(ref)
         r == calculate_strategy_result(Params(id), loc[t].price)
     IN \/ /\ loc' = [loc EXCEPT ![t].idx = @ + 1, ![t].price = 0]
           /\ Goto(t, "pe_next")
           /\ UNCHANGED <<db, completions>>
        \/ /\ db' = update_strategy_result(id, loc[t].price, now, r[1], r[2], r[3])
           /\ loc' = [loc EXCEPT ![t].processed = Append(@, ref), ![t].price = 0,
                                  ![t].sid = id]
           /\ completions' = [completions EXCEPT ![id] = IF @ < 2 THEN @ + 1 ELSE @]
           /\ Goto(t, "rm_filter")
  /\ UNCHANGED <<now, obj, active, loads, created, prevPass, calls,
                 monVars>>

\* remove_strategy, line 41, right-hand side: the comprehension reads the list.
remove_strategy_read(t) ==
  /\ pc[t] = "rm_filter"
  /\ loc' = [loc EXCEPT ![t].tmp = remove_strategy_filter(active, loc[t].sid)]
  /\ Goto(t, "rm_assign")
  /\ UNCHANGED <<now, db, obj, active, loads, created, prevPass, completions,
                 calls, monVars>>

\* remove_strategy that also writes the close to the store: a manual close
\* sets the row's status to EXPIRED.
remove_strategy_assign_persists(t) ==
  /\ pc[t] = "rm_assign"
  /\ active' = loc[t].tmp
  /\ IF loc[t].op = "remove_strategy"
     THEN /\ Return(t, "remove_strategy", loc[t].sid, TRUE)
          /\ db' = IF loc[t].sid \in DOMAIN db
                   THEN [db EXCEPT ![loc[t].sid].status = "expired"] ELSE db
     ELSE /\ loc' = [loc EXCEPT ![t].tmp = <<>>, ![t].sid = 0, ![t].idx = @ + 1]
          /\ Goto(t, "pe_next")
          /\ db' = db
  /\ UNCHANGED <<now, obj, loads, created, completions, calls,
                 prevPass,
                 monVars>>

\* remove_strategy, line 41, the assignment: self.active_strategies = ...
\* Called from a pass (line 178) the loop goes on; called by a caller it
\* returns True.
remove_strategy_assign(t) ==
  /\ pc[t] = "rm_assign"
  /\ active' = loc[t].tmp
  /\ IF loc[t].op = "remove_strategy"
     THEN Return(t, "remove_strategy", loc[t].sid, TRUE)
     ELSE /\ loc' = [loc EXCEPT ![t].tmp = <<>>, ![t].sid = 0, ![t].idx = @ + 1]
          /\ Goto(t, "pe_next")
  /\ UNCHANGED <<now, db, obj, loads, created, completions, calls,
                 prevPass,
                 monVars>>

\* Line 183 for a caller: return processed.
process_expired_return(t) ==
  /\ pc[t] = "pe_next"
  /\ t \in Callers
  /\ loc[t].idx > Len(loc[t].expired)
  /\ Return(t, "process_expired_strategies", 0, SeqIds(loc[t].processed))
  /\ UNCHANGED <<now, db, obj, active, loads, created, completions, calls, prevPass,
                 monVars>>

\* remove_strategy called by a caller (a manual close): same two steps.
remove_strategy_call(t, id) ==
  /\ pc[t] = "idle"
  /\ calls.removes < MaxRemoves
  /\ calls' = [calls EXCEPT !.removes = @ + 1]
  /\ loc' = [loc EXCEPT ![t] = [NoLocals EXCEPT !.op = "remove_strategy", !.sid = id]]
  /\ Goto(t, "rm_filter")
  /\ UNCHANGED <<now, db, obj, active, loads, created, prevPass, completions,
                 monVars>>

\* update_strategy_status, lines 66-69: the first active entry of that id
\* gets the status.
set_status_in_list(id, status) ==
  LET hits == {i \in 1..Len(active) : IdOf(active[i]) = id}
  IN IF hits = {} THEN obj
     ELSE LET first == CHOOSE i \in hits : \A j \in hits : i <= j
          IN [obj EXCEPT ![active[first]].status = status]

update_strategy_status_call(t, id, status) ==
  /\ pc[t] = "idle"
  /\ calls.updates < MaxUpdates
  /\ calls' = [calls EXCEPT !.updates = @ + 1]
  /\ obj' = set_status_in_list(id, status)
  /\ loc' = [loc EXCEPT ![t] = [NoLocals EXCEPT !.op = "update_strategy_status",
                                               !.sid = id, !.st = status]]
  /\ Goto(t, "us_get")
  /\ UNCHANGED <<now, db, active, loads, created, prevPass, completions, monVars>>

\* Line 72: get_strategy gives a copy of the row, or None (no row, or its own
\* except); None returns False at line 77.
update_strategy_status_get(t) ==
  /\ pc[t] = "us_get"
  /\ \/ /\ loc[t].sid \in DOMAIN db
        /\ loc' = [loc EXCEPT ![t].tmp = <<db[loc[t].sid]>>]
        /\ Goto(t, "us_save")
     \/ Return(t, "update_strategy_status", loc[t].sid, FALSE)
  /\ UNCHANGED <<now, db, obj, active, loads, created, completions, calls, prevPass,
                 monVars>>

\* Lines 74-75: the copy gets the status and is saved whole.
update_strategy_status_save(t) ==
  /\ pc[t] = "us_save"
  /\ \/ /\ db' = save_strategy(loc[t].sid, [loc[t].tmp[1] EXCEPT !.status = loc[t].st])
        /\ Return(t, "update_strategy_status", loc[t].sid, TRUE)
     \/ /\ db' = db
        /\ Return(t, "update_strategy_status", loc[t].sid, FALSE)
  /\ UNCHANGED <<now, obj, active, loads, created, completions, calls, prevPass,
                 monVars>>

\* ResultsManager.get_active_strategies without its WHERE clause.
RECURSIVE rm_get_active_strategies_any_status(_)
rm_get_active_strategies_any_status(n) ==
  IF n = 0 THEN <<>>
  ELSE LET id == created[n]
       IN (IF id \in DOMAIN db THEN <<id>> ELSE <<>>)
            \o rm_get_active_strategies_any_status(n - 1)

\* ResultsManager.get_active_strategies: the ids of the rows whose status is
\* pending or active, ORDER BY created_at DESC.
RECURSIVE rm_get_active_strategies(_)
rm_get_active_strategies(n) ==
  IF n = 0 THEN <<>>
  ELSE LET id == created[n]
       IN (IF id \in DOMAIN db /\ db[id].status \in {"pending", "active"}
           THEN <<id>> ELSE <<>>) \o rm_get_active_strategies(n - 1)

\* load_active_strategies, line 239: the query builds new objects from the
\* rows (_row_to_strategy), or gives [] on its own except.
load_active_strategies_query(t) ==
  /\ pc[t] = "idle"
  /\ loads < MaxLoads
  /\ loads' = loads + 1
  /\ \E ok \in BOOLEAN :
       LET ids == IF ok THEN rm_get_active_strategies(Len(created)) ELSE <<>>
           refs == [i \in 1..Len(ids) |-> <<ids[i], loads + 1>>]
       IN /\ obj' = [r \in (DOMAIN obj) \cup {refs[i] : i \in 1..Len(refs)} |->
                       IF r \in DOMAIN obj THEN obj[r] ELSE db[IdOf(r)]]
          /\ loc' = [loc EXCEPT ![t] = [NoLocals EXCEPT !.op = "load_active_strategies",
                                                       !.tmp = refs]]
  /\ Goto(t, "la_assign")
  /\ UNCHANGED <<now, db, active, created, prevPass, completions, calls, monVars>>

\* Lines 240-241: self.active_strategies = active_strategies; return its length.
load_active_strategies_assign(t) ==
  /\ pc[t] = "la_assign"
  /\ active' = loc[t].tmp
  /\ Return(t, "load_active_strategies", 0, Len(loc[t].tmp))
  /\ UNCHANGED <<now, db, obj, loads, created, completions, calls,
                 prevPass,
                 monVars>>

\* get_completed_strategies: copies of the rows whose status is completed.
get_completed_strategies ==
  [id \in {i \in DOMAIN db : db[i].status = "completed"} |-> db[id]]

\* complete_session, line 186: snapshot of the completed rows (or [] on the
\* query's own except).
complete_session_query(t, session_id) ==
  /\ pc[t] = "idle"
  /\ \E ok \in BOOLEAN :
       loc' = [loc EXCEPT ![t] = [NoLocals EXCEPT !.op = "complete_session",
                                                 !.sid = session_id,
                                                 !.tmp = IF ok THEN get_completed_strategies
                                                         ELSE <<>>]]
  /\ Goto(t, "cs_save")
  /\ UNCHANGED <<now, db, obj, active, loads, created, prevPass, completions,
                 calls, monVars>>

\* save_session: the session row is written, then save_strategy for each
\* snapshot copy (each may fail on its own), then commit; or the whole call
\* fails before writing anything.
complete_session_save(t) ==
  /\ pc[t] = "cs_save"
  /\ \/ \E written \in SUBSET (DOMAIN loc[t].tmp) :
          /\ db' = [i \in DOMAIN db |-> IF i \in written THEN loc[t].tmp[i] ELSE db[i]]
          /\ Return(t, "complete_session", loc[t].sid, TRUE)
     \/ /\ db' = db
        /\ Return(t, "complete_session", loc[t].sid, FALSE)
  /\ UNCHANGED <<now, obj, active, loads, created, completions, calls, prevPass,
                 monVars>>

\* ------------------------------------------------ the monitoring loop
\* A change of self.callbacks is seen by every loop that is in, or past, the
\* dispatch of its current cycle.
Touch == [l \in Loops |-> cbTouched[l] \/ pc[l] \in {"dispatch", "backoff"}]

\* The loop thread a start would run: the lowest one not started yet.
NextLoop == CHOOSE l \in Loops : pc[l] = "unborn" /\ \A m \in Loops : pc[m] = "unborn" => l[2] <= m[2]

\* start_monitoring with the "if self.monitoring: return" dropped.
start_monitoring_check_unguarded(t, check_interval, func) ==
  /\ pc[t] = "idle"
  /\ \E l \in Loops : pc[l] = "unborn"
  /\ loc' = [loc EXCEPT ![t] = [NoLocals EXCEPT !.op = "start_monitoring",
                                               !.tmp = <<check_interval, func>>]]
  /\ Goto(t, "sm_spawn")
  /\ UNCHANGED <<now, db, obj, active, loads, created, prevPass, completions,
                 calls, monVars>>

\* start_monitoring, lines 188-189: already monitoring, return.
start_monitoring_check(t, check_interval, func) ==
  /\ pc[t] = "idle"
  /\ \E l \in Loops : pc[l] = "unborn"
  /\ IF monitoring
     THEN Return(t, "start_monitoring", 0, "noop")
     ELSE /\ loc' = [loc EXCEPT ![t] = [NoLocals EXCEPT !.op = "start_monitoring",
                                                       !.tmp = <<check_interval, func>>]]
          /\ Goto(t, "sm_spawn")
  /\ UNCHANGED <<now, db, obj, active, loads, created, prevPass, completions,
                 calls, monVars>>

\* Lines 191-197: the flag is set, the thread is made with its two arguments
\* and started.
start_monitoring_spawn(t) ==
  /\ pc[t] = "sm_spawn"
  /\ \E l \in Loops : pc[l] = "unborn"
  /\ monitoring' = TRUE
  /\ monitor_thread' = Some(NextLoop)
  /\ loopArgs' = [loopArgs EXCEPT ![NextLoop] =
                    [interval |-> loc[t].tmp[1], func |-> loc[t].tmp[2]]]
  /\ pc' = [pc EXCEPT ![t] = "return", ![NextLoop] = "loop_test"]
  /\ loc' = [loc EXCEPT ![t] = [NoLocals EXCEPT !.op = "start_monitoring",
                                               !.val = "started"]]
  /\ UNCHANGED <<now, db, obj, active, loads, created, prevPass, completions,
                 calls, callbacks, invoked, cbTouched>>

\* stop_monitoring: the flag is cleared; the join returns when the thread has
\* ended or after its 5 s timeout, the thread is left to itself either way.
stop_monitoring(t) ==
  /\ pc[t] = "idle"
  /\ monitoring' = FALSE
  /\ Return(t, "stop_monitoring", 0, None)
  /\ UNCHANGED <<now, db, obj, active, loads, created, prevPass, completions,
                 calls, monitor_thread, callbacks, loopArgs, invoked, cbTouched>>

\* add_callback: self.callbacks.append(callback)
add_callback(t, callback) ==
  /\ pc[t] = "idle"
  /\ Len(callbacks) < MaxCallbacks
  /\ callbacks' = Append(callbacks, callback)
  /\ cbTouched' = Touch
  /\ Return(t, "add_callback", 0, None)
  /\ UNCHANGED <<now, db, obj, active, loads, created, prevPass, completions,
                 calls, monitoring, monitor_thread, loopArgs, invoked>>

\* list.remove: the first occurrence goes.
list_remove(list, x) ==
  LET first == CHOOSE i \in 1..Len(list) :
                 list[i] = x /\ \A j \in 1..Len(list) : list[j] = x => i <= j
  IN SubSeq(list, 1, first - 1) \o SubSeq(list, first + 1, Len(list))

\* remove_callback: if callback in self.callbacks: self.callbacks.remove(callback)
remove_callback(t, callback) ==
  /\ pc[t] = "idle"
  /\ IF callback \in Range(callbacks)
     THEN /\ callbacks' = list_remove(callbacks, callback)
          /\ cbTouched' = Touch
     ELSE UNCHANGED <<callbacks, cbTouched>>
  /\ Return(t, "remove_callback", 0, None)
  /\ UNCHANGED <<now, db, obj, active, loads, created, prevPass, completions,
                 calls, monitoring, monitor_thread, loopArgs, invoked>>

\* time.sleep(secs) raises ValueError for a negative length; in the loop that
\* is caught at line 223, which sleeps 60 s (line 225).
time_sleep(secs) == IF secs < 0 THEN "backoff" ELSE "sleep"

\* _monitor_loop, lines 207-211: while self.monitoring; with a price function
\* the cycle begins with process_expired_strategies, without one it sleeps.
monitor_loop_test(l) ==
  /\ pc[l] = "loop_test"
  /\ IF ~monitoring
     THEN /\ Goto(l, "exited")
          /\ UNCHANGED loc
     ELSE IF loopArgs[l].func = None
     THEN /\ Goto(l, time_sleep(loopArgs[l].interval))
          /\ UNCHANGED loc
     ELSE pe_begin(l)
  /\ UNCHANGED <<now, db, obj, active, loads, created, prevPass, completions,
                 calls, monVars>>

\* Line 211 returns and line 214 begins: for callback in self.callbacks.
monitor_loop_dispatch(l) ==
  /\ l \in Loops
  /\ pc[l] = "pe_next"
  /\ loc[l].idx > Len(loc[l].expired)
  /\ loc' = [loc EXCEPT ![l] = [NoLocals EXCEPT !.op = "cycle", !.idx = 1,
                                               !.val = loc[l].processed]]
  /\ invoked' = [invoked EXCEPT ![l] = <<>>]
  /\ cbTouched' = [cbTouched EXCEPT ![l] = FALSE]
  /\ Goto(l, "dispatch")
  /\ UNCHANGED <<now, db, obj, active, loads, created, prevPass, completions,
                 calls, monitoring, monitor_thread, callbacks, loopArgs>>

\* The dispatch without the inner try/except: a raising callback ends the
\* for loop and lands in the outer handler's time.sleep(60).
monitor_loop_callback_unguarded(l) ==
  /\ pc[l] = "dispatch"
  /\ loc[l].idx <= Len(callbacks)
  /\ \/ /\ invoked' = [invoked EXCEPT ![l] = Append(@, <<callbacks[loc[l].idx], loc[l].val, "ok">>)]
        /\ loc' = [loc EXCEPT ![l].idx = @ + 1]
        /\ UNCHANGED pc
     \/ /\ invoked' = [invoked EXCEPT ![l] = Append(@, <<callbacks[loc[l].idx], loc[l].val, "raised">>)]
        /\ loc' = [loc EXCEPT ![l].idx = 0]
        /\ Goto(l, "backoff")
  /\ UNCHANGED <<now, db, obj, active, loads, created, prevPass, completions,
                 calls, monitoring, monitor_thread, callbacks, loopArgs, cbTouched>>

\* Lines 214-218: the list iterator's next entry is called with processed; it
\* returns or raises, and a raise is caught at 217.
monitor_loop_callback(l) ==
  /\ pc[l] = "dispatch"
  /\ loc[l].idx <= Len(callbacks)
  /\ \E outcome \in {"ok", "raised"} :
       invoked' = [invoked EXCEPT ![l] = Append(@, <<callbacks[loc[l].idx], loc[l].val, outcome>>)]
  /\ loc' = [loc EXCEPT ![l].idx = @ + 1]
  /\ UNCHANGED <<now, db, obj, active, loads, created, prevPass, completions,
                 calls, pc, monitoring, monitor_thread, callbacks, loopArgs,
                 cbTouched>>

\* _monitor_loop without the outer try/except: the exception of
\* time.sleep(check_interval) ends the thread.
monitor_loop_sleep_unguarded(l) ==
  /\ pc[l] = "dispatch"
  /\ loc[l].idx > Len(callbacks)
  /\ loc' = [loc EXCEPT ![l] = NoLocals]
  /\ invoked' = [invoked EXCEPT ![l] = <<>>]
  /\ cbTouched' = [cbTouched EXCEPT ![l] = FALSE]
  /\ Goto(l, IF time_sleep(loopArgs[l].interval) = "backoff" THEN "exited" ELSE "sleep")
  /\ UNCHANGED <<now, db, obj, active, loads, created, prevPass, completions,
                 calls, monitoring, monitor_thread, callbacks, loopArgs>>

\* The iterator is exhausted; line 221: time.sleep(check_interval), and lines
\* 223-225 when it raises.
monitor_loop_sleep(l) ==
  /\ pc[l] = "dispatch"
  /\ loc[l].idx > Len(callbacks)
  /\ loc' = [loc EXCEPT ![l] = NoLocals]
  /\ invoked' = [invoked EXCEPT ![l] = <<>>]
  /\ cbTouched' = [cbTouched EXCEPT ![l] = FALSE]
  /\ Goto(l, time_sleep(loopArgs[l].interval))
  /\ UNCHANGED <<now, db, obj, active, loads, created, prevPass, completions,
                 calls, monitoring, monitor_thread, callbacks, loopArgs>>

\* The sleep is over: back to the while test.
monitor_loop_wake(l) ==
  /\ pc[l] = "sleep"
  /\ Goto(l, "loop_test")
  /\ UNCHANGED <<now, db, obj, active, loads, created, prevPass, completions,
                 calls, loc, monVars>>

\* Line 225: the 60 s of the outer handler are over, back to the while test.
monitor_loop_backoff(l) ==
  /\ pc[l] = "backoff"
  /\ loc' = [loc EXCEPT ![l] = NoLocals]
  /\ invoked' = [invoked EXCEPT ![l] = <<>>]
  /\ cbTouched' = [cbTouched EXCEPT ![l] = FALSE]
  /\ Goto(l, "loop_test")
  /\ UNCHANGED <<now, db, obj, active, loads, created, prevPass, completions,
                 calls, monitoring, monitor_thread, callbacks, loopArgs>>

\* Time passes.
Tick ==
  /\ now < MaxTime
  /\ now' = now + 1
  /\ UNCHANGED <<db, obj, active, loads, created, pc, loc, prevPass,
                 completions, calls, monVars>>

\* The steps of a process_expired_strategies pass after its first.
PassStep(t) ==
  \/ process_expired_settle(t)
  \/ process_expired_update(t)
  \/ remove_strategy_read(t)
  \/ remove_strategy_assign(t)

\* Concurrent callers of the tracker: add_strategy and process_expired passes.
Next ==
  \/ Tick
  \/ \E t \in Callers, id \in Ids : add_strategy_save(t, id)
  \/ \E t \in Callers : add_strategy_append(t)
  \/ \E t \in Callers : process_expired_call(t)
  \/ \E t \in Callers : PassStep(t)
  \/ \E t \in Callers : process_expired_return(t)
  \/ \E t \in Callers : Returned(t)

Spec == Init /\ [][Next]_vars

\* One caller, one call at a time: every tracker and engine operation on the
\* records, run to completion before the next begins.
Main == <<"caller", 1>>
SessionIds == {"s1"}

SeqNext ==
  \/ Tick
  \/ \E id \in Ids : add_strategy_save(Main, id)
  \/ add_strategy_append(Main)
  \/ process_expired_call(Main)
  \/ PassStep(Main)
  \/ process_expired_return(Main)
  \/ \E id \in Ids : remove_strategy_call(Main, id)
  \/ \E id \in Ids, st \in StatusArgs : update_strategy_status_call(Main, id, st)
  \/ update_strategy_status_get(Main)
  \/ update_strategy_status_save(Main)
  \/ load_active_strategies_query(Main)
  \/ load_active_strategies_assign(Main)
  \/ \E sid \in SessionIds : complete_session_query(Main, sid)
  \/ complete_session_save(Main)
  \/ Returned(Main)

SeqSpec == Init /\ [][SeqNext]_vars

\* The monitoring lifecycle: callers add records, start and stop the
\* monitoring and register callbacks while the loop threads run.
\* What start_monitoring is called with: (check_interval, get_current_price_func).
StartArgs == {<<3600, Some("f1")>>, <<60, None>>, <<-1, Some("f2")>>}

MonNext ==
  \/ Tick
  \/ add_strategy_save(Main, 1)
  \/ add_strategy_append(Main)
  \/ \E a \in StartArgs : start_monitoring_check(Main, a[1], a[2])
  \/ start_monitoring_spawn(Main)
  \/ stop_monitoring(Main)
  \/ Returned(Main)
  \/ \E l \in Loops : monitor_loop_test(l)
  \/ \E l \in Loops : PassStep(l)
  \/ \E l \in Loops : monitor_loop_dispatch(l)
  \/ \E l \in Loops : monitor_loop_sleep(l)
  \/ \E l \in Loops : monitor_loop_wake(l)
  \/ \E l \in Loops : monitor_loop_backoff(l)

MonSpec == Init /\ [][MonNext]_vars

\* The dispatch to the callbacks: one monitoring is started, callbacks are
\* registered and removed while its loop runs.
CbNext ==
  \/ Tick
  \/ add_strategy_save(Main, 1)
  \/ add_strategy_append(Main)
  \/ \E a \in StartArgs : start_monitoring_check(Main, a[1], a[2])
  \/ start_monitoring_spawn(Main)
  \/ \E cb \in CallbackIds : add_callback(Main, cb)
  \/ \E cb \in CallbackIds : remove_callback(Main, cb)
  \/ Returned(Main)
  \/ \E l \in Loops : monitor_loop_test(l)
  \/ \E l \in Loops : PassStep(l)
  \/ \E l \in Loops : monitor_loop_dispatch(l)
  \/ \E l \in Loops : monitor_loop_callback(l)
  \/ \E l \in Loops : monitor_loop_sleep(l)
  \/ \E l \in Loops : monitor_loop_wake(l)
  \/ \E l \in Loops : monitor_loop_backoff(l)

CbSpec == Init /\ [][CbNext]_vars

\* ------------------------------------- calculate_strategy_result alone
\* The records and prices calculate_strategy_result is applied to: the three
\* kinds of strategy_name, strikes with lower below upper, and prices below,
\* at, between and above the strikes.
StrategyNames == {"Call Debit Spread", "Put Debit Spread", "Iron Condor"}
Strikes == {<<145, 155>>, <<100, 110>>}
CalcPrices == {99, 100, 102, 108, 110, 140, 145, 147, 148, 150, 153, 155, 160}

CalcRecords ==
  [strategy_name : StrategyNames, lower_strike : {k[1] : k \in Strikes},
   upper_strike : {k[2] : k \in Strikes}, initial_cost : {2, 3},
   max_profit : {8, 14}, max_loss : {2, 3}, contracts : {1, 2}]

CalcInit ==
  /\ now = 0
  /\ db = <<>>
  /\ obj = <<>>
  /\ active = <<>>
  /\ loads = 0
  /\ created = <<>>
  /\ monitoring = FALSE
  /\ monitor_thread = None
  /\ callbacks = <<>>
  /\ loopArgs = [l \in Loops |-> [interval |-> 0, func |-> None]]
  /\ pc = [t \in Threads |-> IF t = Main THEN "calc"
                             ELSE IF t \in Callers THEN "idle" ELSE "unborn"]
  /\ \E s \in CalcRecords, p \in CalcPrices :
       /\ <<s.lower_strike, s.upper_strike>> \in Strikes
       /\ loc = [t \in Threads |-> IF t = Main THEN [NoLocals EXCEPT !.tmp = <<s, p>>]
                                    ELSE NoLocals]
  /\ prevPass = [t \in Callers |-> {}]
  /\ completions = [i \in Ids |-> 0]
  /\ invoked = [l \in Loops |-> <<>>]
  /\ cbTouched = [l \in Loops |-> FALSE]
  /\ calls = [passes |-> 0, updates |-> 0, removes |-> 0]

\* The call calculate_strategy_result(strategy, current_price) on the
\* arguments the thread holds; it keeps them next to the returned triple.
calculate_strategy_result_call(t) ==
  /\ pc[t] = "calc"
  /\ loc' = [loc EXCEPT ![t].op = "calculate_strategy_result",
                         ![t].val = calculate_strategy_result(loc[t].tmp[1], loc[t].tmp[2])]
  /\ Goto(t, "return")
  /\ UNCHANGED <<now, db, obj, active, loads, created, prevPass, completions,
                 calls, monVars>>

CalcNext ==
  \/ calculate_strategy_result_call(Main)
  \/ Returned(Main)

CalcSpec == CalcInit /\ [][CalcNext]_vars

\* ------------------------------------ records of a kind the tracker
\* does not know. StrategyTracker.add_strategy takes any BacktestStrategy:
\* one caller tracks a record of an unknown strategy_name and a call spread
\* and runs passes over them.
KindIds == {3, 4}

KindInit ==
  /\ now = 0
  /\ db = <<>>
  /\ obj = <<>>
  /\ active = <<>>
  /\ loads = 0
  /\ created = <<>>
  /\ monitoring = FALSE
  /\ monitor_thread = None
  /\ callbacks = <<>>
  /\ loopArgs = [l \in Loops |-> [interval |-> 0, func |-> None]]
  /\ pc = [t \in Threads |-> IF t \in Callers THEN "idle" ELSE "unborn"]
  /\ loc = [t \in Threads |-> NoLocals]
  /\ prevPass = [t \in Callers |-> {}]
  /\ completions = [i \in KindIds |-> 0]
  /\ invoked = [l \in Loops |-> <<>>]
  /\ cbTouched = [l \in Loops |-> FALSE]
  /\ calls = [passes |-> 0, updates |-> 0, removes |-> 0]

KindNext ==
  \/ Tick
  \/ \E id \in KindIds : add_strategy_save(Main, id)
  \/ add_strategy_append(Main)
  \/ process_expired_call(Main)
  \/ PassStep(Main)
  \/ process_expired_return(Main)
  \/ Returned(Main)

KindSpec == KindInit /\ [][KindNext]_vars

\* ------------------------------------ records of different expirations:
\* one caller tracks a record that has expired already and one that expires
\* later, and runs passes over them as time goes by.
ExpIds == {1, 5}

ExpInit ==
  /\ now = 0
  /\ db = <<>>
  /\ obj = <<>>
  /\ active = <<>>
  /\ loads = 0
  /\ created = <<>>
  /\ monitoring = FALSE
  /\ monitor_thread = None
  /\ callbacks = <<>>
  /\ loopArgs = [l \in Loops |-> [interval |-> 0, func |-> None]]
  /\ pc = [t \in Threads |-> IF t \in Callers THEN "idle" ELSE "unborn"]
  /\ loc = [t \in Threads |-> NoLocals]
  /\ prevPass = [t \in Callers |-> {}]
  /\ completions = [i \in ExpIds |-> 0]
  /\ invoked = [l \in Loops |-> <<>>]
  /\ cbTouched = [l \in Loops |-> FALSE]
  /\ calls = [passes |-> 0, updates |-> 0, removes |-> 0]

ExpNext ==
  \/ Tick
  \/ \E id \in ExpIds : add_strategy_save(Main, id)
  \/ add_strategy_append(Main)
  \/ process_expired_call(Main)
  \/ PassStep(Main)
  \/ process_expired_return(Main)
  \/ Returned(Main)

ExpSpec == ExpInit /\ [][ExpNext]_vars

\* ----------------------------------- BacktestEngine.add_strategy_for_backtesting
\* What the engine's add is called with.
EngineArgs ==
  [strategy_name : StrategyNames, lower_strike : {0, 145, 155},
   upper_strike : {145, 155}, lower_premium : {0, 1, 3},
   upper_premium : {1, 3}, contracts : {1, 2}]

\* Lines 97-128 with max_profit taken as the width of the strikes alone.
add_strategy_for_backtesting_record_no_debit(a) ==
  LET record(debit) ==
        Some([strategy_name |-> a.strategy_name,
              lower_strike |-> a.lower_strike, upper_strike |-> a.upper_strike,
              contracts |-> a.contracts,
              initial_cost |-> debit * a.contracts,
              max_profit |-> (a.upper_strike - a.lower_strike) * a.contracts,
              max_loss |-> debit * a.contracts,
              status |-> "active"])
  IN IF a.strategy_name = "Call Debit Spread"
     THEN record(a.lower_premium - a.upper_premium)
     ELSE IF a.strategy_name = "Put Debit Spread"
     THEN record(a.upper_premium - a.lower_premium)
     ELSE None

\* Lines 97-128 with the "elif Put Debit Spread" turned into the else: every
\* other name is built as a put spread.
add_strategy_for_backtesting_record_any_kind(a) ==
  LET record(debit) ==
        Some([strategy_name |-> a.strategy_name,
              lower_strike |-> a.lower_strike, upper_strike |-> a.upper_strike,
              contracts |-> a.contracts,
              initial_cost |-> debit * a.contracts,
              max_profit |-> (a.upper_strike - a.lower_strike - debit) * a.contracts,
              max_loss |-> debit * a.contracts,
              status |-> "active"])
  IN IF a.strategy_name = "Call Debit Spread"
     THEN record(a.lower_premium - a.upper_premium)
     ELSE record(a.upper_premium - a.lower_premium)

\* Lines 97-128: initial_cost, max_profit and max_loss by strategy_name and
\* the BacktestStrategy built from them with status ACTIVE; None for any
\* other name (line 107).
add_strategy_for_backtesting_record(a) ==
  LET record(debit) ==
        Some([strategy_name |-> a.strategy_name,
              lower_strike |-> a.lower_strike, upper_strike |-> a.upper_strike,
              contracts |-> a.contracts,
              initial_cost |-> debit * a.contracts,
              max_profit |-> (a.upper_strike - a.lower_strike - debit) * a.contracts,
              max_loss |-> debit * a.contracts,
              status |-> "active"])
  IN IF a.strategy_name = "Call Debit Spread"
     THEN record(a.lower_premium - a.upper_premium)
     ELSE IF a.strategy_name = "Put Debit Spread"
     THEN record(a.upper_premium - a.lower_premium)
     ELSE None

\* The call: the record is built, or None is returned for an unknown name.
\* The thread keeps the arguments and the built record in tmp.
add_strategy_for_backtesting_build(t, a) ==
  /\ pc[t] = "idle"
  /\ \E id \in Ids :
       /\ \A i \in 1..Len(created) : created[i] # id
       /\ LET built == add_strategy_for_backtesting_record(a)
          IN /\ loc' = [loc EXCEPT ![t] =
                          [NoLocals EXCEPT !.op = "add_strategy_for_backtesting",
                                           !.sid = IF built = None THEN 0 ELSE id,
                                           !.tmp = <<a, built>>, !.val = None]]
             /\ Goto(t, IF built = None THEN "return" ELSE "engine_track")
  /\ UNCHANGED <<now, db, obj, active, loads, created, prevPass, completions,
                 calls, monVars>>

\* Line 131, StrategyTracker.add_strategy: save_strategy fails and the engine
\* returns None (line 136), or the row is written.
add_strategy_for_backtesting_track(t) ==
  /\ pc[t] = "engine_track"
  /\ created' = Append(created, loc[t].sid)
  /\ obj' = Put(obj, <<loc[t].sid, 0>>,
                [NewFields EXCEPT !.status = loc[t].tmp[2][1].status])
  /\ \/ /\ db' = save_strategy(loc[t].sid, obj'[<<loc[t].sid, 0>>])
        /\ Goto(t, "engine_append")
     \/ /\ db' = db
        /\ Goto(t, "return")
  /\ UNCHANGED <<now, active, loads, loc, prevPass, completions, calls, monVars>>

\* The append of add_strategy and line 133: return strategy.id.
add_strategy_for_backtesting_append(t) ==
  /\ pc[t] = "engine_append"
  /\ active' = Append(active, <<loc[t].sid, 0>>)
  /\ loc' = [loc EXCEPT ![t].val = Some(loc[t].sid)]
  /\ Goto(t, "return")
  /\ UNCHANGED <<now, db, obj, loads, created, prevPass, completions, calls,
                 monVars>>

\* A thread is in BacktestEngine.add_strategy_for_backtesting.
InEngineAdd(t) == loc[t].op = "add_strategy_for_backtesting"

EngNext ==
  \/ \E a \in EngineArgs : add_strategy_for_backtesting_build(Main, a)
  \/ add_strategy_for_backtesting_track(Main)
  \/ add_strategy_for_backtesting_append(Main)
  \/ Returned(Main)

EngSpec == Init /\ [][EngNext]_vars

\* ------------------------------- BacktestEngine.start_automated_backtesting
\* A new process: a fresh engine and tracker over the store an earlier
\* process left. A row is as add_strategy or update_strategy_status wrote it
\* (no result fields) or as a pass completed it at its expiration.
CompletedRow(id) ==
  LET r == calculate_strategy_result(Params(id), 160)
  IN [status |-> "completed", exit_price |-> Some(160),
      exit_date |-> Some(Params(id).expiration_date), final_pnl |-> Some(r[1]),
      result |-> Some(r[2]), exit_reason |-> Some(r[3])]

StoredRows(id, time) ==
  {[NewFields EXCEPT !.status = st] : st \in {"pending", "active", "expired"}}
    \cup (IF Params(id).expiration_date <= time THEN {CompletedRow(id)} ELSE {})

RestartInit ==
  /\ now \in Times
  /\ \E present \in SUBSET Ids :
       /\ db \in [present -> UNION {StoredRows(id, now) : id \in present}]
       /\ \A id \in present : db[id] \in StoredRows(id, now)
       /\ created \in [1..Cardinality(present) -> present]
       /\ \A i, j \in 1..Len(created) : created[i] = created[j] => i = j
  /\ obj = <<>>
  /\ active = <<>>
  /\ loads = 0
  /\ monitoring = FALSE
  /\ monitor_thread = None
  /\ callbacks = <<>>
  /\ loopArgs = [l \in Loops |-> [interval |-> 0, func |-> None]]
  /\ pc = [t \in Threads |-> IF t \in Callers THEN "idle" ELSE "unborn"]
  /\ loc = [t \in Threads |-> NoLocals]
  /\ prevPass = [t \in Callers |-> {}]
  /\ completions = [i \in Ids |-> 0]
  /\ invoked = [l \in Loops |-> <<>>]
  /\ cbTouched = [l \in Loops |-> FALSE]
  /\ calls = [passes |-> 0, updates |-> 0, removes |-> 0]

\* Lines 47-50: load_active_strategies runs the store's query, which builds
\* new objects from the rows or gives [] on its own except.
start_automated_backtesting_load(t, check_interval, price_function) ==
  /\ pc[t] = "idle"
  /\ loads < MaxLoads
  /\ monitoring \/ \E l \in Loops : pc[l] = "unborn"
  /\ Len(callbacks) < MaxCallbacks
  /\ loads' = loads + 1
  /\ \E ok \in BOOLEAN :
       LET ids == IF ok THEN rm_get_active_strategies(Len(created)) ELSE <<>>
           refs == [i \in 1..Len(ids) |-> <<ids[i], loads + 1>>]
       IN /\ obj' = [r \in (DOMAIN obj) \cup {refs[i] : i \in 1..Len(refs)} |->
                       IF r \in DOMAIN obj THEN obj[r] ELSE db[IdOf(r)]]
          /\ loc' = [loc EXCEPT ![t] =
                       [NoLocals EXCEPT !.op = "start_automated_backtesting",
                                        !.st = IF ok THEN "loaded" ELSE "load_failed",
                                        !.expired = refs,
                                        !.tmp = <<check_interval, price_function>>]]
  /\ Goto(t, "sab_assign")
  /\ UNCHANGED <<now, db, active, created, prevPass, completions, calls, monVars>>

\* load_active_strategies, line 240: self.active_strategies = active_strategies
start_automated_backtesting_assign(t) ==
  /\ pc[t] = "sab_assign"
  /\ active' = loc[t].expired
  /\ Goto(t, "sab_start")
  /\ UNCHANGED <<now, db, obj, loads, created, loc, prevPass, completions,
                 calls, monVars>>

\* Lines 53-56: start_monitoring(check_interval, price_function), a no-op
\* when the flag is set.
start_automated_backtesting_start(t) ==
  /\ pc[t] = "sab_start"
  /\ IF monitoring
     THEN /\ Goto(t, "sab_callback")
          /\ UNCHANGED <<monitoring, monitor_thread, loopArgs>>
     ELSE /\ monitoring' = TRUE
          /\ monitor_thread' = Some(NextLoop)
          /\ loopArgs' = [loopArgs EXCEPT ![NextLoop] =
                            [interval |-> loc[t].tmp[1], func |-> loc[t].tmp[2]]]
          /\ pc' = [pc EXCEPT ![t] = "sab_callback", ![NextLoop] = "loop_test"]
  /\ UNCHANGED <<now, db, obj, active, loads, created, loc, prevPass,
                 completions, calls, callbacks, invoked, cbTouched>>

\* Lines 59-63: add_callback(self._on_strategies_completed), return True.
start_automated_backtesting_callback(t) ==
  /\ pc[t] = "sab_callback"
  /\ callbacks' = Append(callbacks, "engine")
  /\ cbTouched' = Touch
  /\ Return(t, "start_automated_backtesting", 0, TRUE)
  /\ UNCHANGED <<now, db, obj, active, loads, created, prevPass, completions,
                 calls, monitoring, monitor_thread, loopArgs, invoked>>

RestartNext ==
  \/ Tick
  \/ \E a \in StartArgs : start_automated_backtesting_load(Main, a[1], a[2])
  \/ start_automated_backtesting_assign(Main)
  \/ start_automated_backtesting_start(Main)
  \/ start_automated_backtesting_callback(Main)
  \/ Returned(Main)
  \/ \E l \in Loops : monitor_loop_test(l)
  \/ \E l \in Loops : PassStep(l)
  \/ \E l \in Loops : monitor_loop_dispatch(l)
  \/ \E l \in Loops : monitor_loop_callback(l)
  \/ \E l \in Loops : monitor_loop_sleep(l)
  \/ \E l \in Loops : monitor_loop_wake(l)
  \/ \E l \in Loops : monitor_loop_backoff(l)

RestartSpec == RestartInit /\ [][RestartNext]_vars

\* ------------------------------------------------- PerformanceAnalyzer
\* Amounts are whole dollars; a value the code rounds to two decimals is held
\* in hundredths. sharpe_ratio, the averages, the holding period, volatility
\* and var_95 (means, square roots and percentiles of floats) are left out of
\* the metrics and the report.
MaxStrategies == 3
AnalyzerPnls == {None, Some(-3), Some(0), Some(2), Some(8)}
AnalyzerNames == {"Call Debit Spread", "Put Debit Spread"}

\* A record as the analyzer reads it: result goes with the sign of final_pnl,
\* and a record without final_pnl has no result.
AnalyzerRecords ==
  {[strategy_name |-> n, entry_date |-> d, final_pnl |-> p,
    result |-> IF p = None THEN None
               ELSE IF p[1] > 0 THEN Some("profit")
               ELSE IF p[1] < 0 THEN Some("loss") ELSE Some("breakeven")] :
     n \in AnalyzerNames, d \in Times, p \in AnalyzerPnls}

RECURSIVE SumSeq(_)
SumSeq(q) == IF q = <<>> THEN 0 ELSE q[1] + SumSeq(Tail(q))

\* round(n / d) to the nearest whole number, a tie to the even one: what
\* round(x, 2) does to a value of n / d hundredths (n >= 0, d > 0).
RoundDiv(n, d) ==
  LET q == n \div d
      r == n % d
  IN IF 2 * r < d THEN q
     ELSE IF 2 * r > d THEN q + 1
     ELSE IF q % 2 = 0 THEN q ELSE q + 1

\* A float that is a number of hundredths, or float('inf').
Finite(h) == [inf |-> FALSE, hundredths |-> h]
Inf == [inf |-> TRUE, hundredths |-> 0]

\* "s.final_pnl or 0"
pnl_or_0(s) == IF s.final_pnl = None THEN 0 ELSE s.final_pnl[1]

\* sorted(strategies, key=lambda x: x.entry_date): a stable sort.
RECURSIVE sorted_by_entry_date(_)
sorted_by_entry_date(strategies) ==
  IF strategies = <<>> THEN <<>>
  ELSE LET rest == sorted_by_entry_date(SubSeq(strategies, 1, Len(strategies) - 1))
           x == strategies[Len(strategies)]
           k == Cardinality({i \in 1..Len(rest) : rest[i].entry_date <= x.entry_date})
       IN SubSeq(rest, 1, k) \o <<x>> \o SubSeq(rest, k + 1, Len(rest))

\* _calculate_cumulative_pnl: the running sum of final_pnl in entry order.
calculate_cumulative_pnl(strategies) ==
  LET sorted_strategies == sorted_by_entry_date(strategies)
  IN [i \in 1..Len(sorted_strategies) |->
        SumSeq([j \in 1..i |-> pnl_or_0(sorted_strategies[j])])]

\* The value of peak when the loop of _calculate_max_drawdown is at entry i.
peak_at(cumulative_pnl, i) ==
  CHOOSE v \in {cumulative_pnl[j] : j \in 1..i} :
    \A j \in 1..i : cumulative_pnl[j] <= v

\* Line 251 with the decline taken relative to the value.
drawdown_at_over_value(cumulative_pnl, i) ==
  LET peak == peak_at(cumulative_pnl, i)
      value == cumulative_pnl[i]
  IN IF value > 0 THEN [num |-> (peak - value) * 100, den |-> value]
     ELSE [num |-> 0, den |-> 1]

\* Line 251: drawdown at entry i, in percent, as the fraction num / den.
drawdown_at(cumulative_pnl, i) ==
  LET peak == peak_at(cumulative_pnl, i)
      value == cumulative_pnl[i]
  IN IF peak > 0 THEN [num |-> (peak - value) * 100, den |-> peak]
     ELSE [num |-> 0, den |-> 1]

\* _calculate_max_drawdown: the largest drawdown, 0 for an empty list.
calculate_max_drawdown(cumulative_pnl) ==
  IF cumulative_pnl = <<>> THEN [num |-> 0, den |-> 1]
  ELSE LET dd == [i \in 1..Len(cumulative_pnl) |-> drawdown_at(cumulative_pnl, i)]
       IN dd[CHOOSE i \in 1..Len(dd) :
               \A j \in 1..Len(dd) : dd[j].num * dd[i].den <= dd[i].num * dd[j].den]

\* _empty_metrics
empty_metrics ==
  [total_trades |-> 0, winning_trades |-> 0, losing_trades |-> 0,
   breakeven_trades |-> 0, win_rate |-> 0, total_profit |-> 0,
   total_loss |-> 0, net_pnl |-> 0, profit_factor |-> Finite(0),
   max_drawdown |-> 0]

\* Lines 45 and 75: total_profit / total_loss rounded, or float('inf').
profit_factor(total_profit, total_loss) ==
  IF total_loss > 0 THEN Finite(RoundDiv(total_profit * 100, total_loss))
  ELSE Inf

Having(strategies, result) ==
  Len(SelectSeq(strategies, LAMBDA x : x.result = Some(result)))

\* calculate_performance_metrics
calculate_performance_metrics(strategies) ==
  IF strategies = <<>> THEN empty_metrics
  ELSE LET total_trades == Len(strategies)
           winning_trades == Having(strategies, "profit")
           pnls == [i \in 1..Len(strategies) |-> pnl_or_0(strategies[i])]
           total_profit == SumSeq(SelectSeq(pnls, LAMBDA v : v > 0))
           losses == SumSeq(SelectSeq(pnls, LAMBDA v : v < 0))
           total_loss == IF losses < 0 THEN -losses ELSE losses
           max_drawdown == calculate_max_drawdown(calculate_cumulative_pnl(strategies))
       IN [total_trades |-> total_trades,
           winning_trades |-> winning_trades,
           losing_trades |-> Having(strategies, "loss"),
           breakeven_trades |-> Having(strategies, "breakeven"),
           win_rate |-> RoundDiv(winning_trades * 10000, total_trades),
           total_profit |-> total_profit,
           total_loss |-> total_loss,
           net_pnl |-> total_profit - total_loss,
           profit_factor |-> profit_factor(total_profit, total_loss),
           max_drawdown |-> RoundDiv(max_drawdown.num * 100, max_drawdown.den)]

\* One entry of _analyze_strategy_breakdown or _analyze_time_performance: the
\* counts and the pnl of a group of records.
group_totals(group) ==
  [total |-> Len(group),
   wins |-> Having(group, "profit"),
   losses |-> Having(group, "loss"),
   total_pnl |-> SumSeq([i \in 1..Len(group) |-> pnl_or_0(group[i])])]

\* _analyze_strategy_breakdown: the records grouped by strategy_name.
analyze_strategy_breakdown(strategies) ==
  [n \in {strategies[i].strategy_name : i \in 1..Len(strategies)} |->
     group_totals(SelectSeq(strategies, LAMBDA x : x.strategy_name = n))]

\* _analyze_time_performance: the records grouped by the month of entry_date.
analyze_time_performance(strategies) ==
  [d \in {strategies[i].entry_date : i \in 1..Len(strategies)} |->
     group_totals(SelectSeq(strategies, LAMBDA x : x.entry_date = d))]

\* _calculate_max_consecutive_losses: the longest run of LOSS in entry order.
calculate_max_consecutive_losses(strategies) ==
  LET q == sorted_by_entry_date(strategies)
      IsRun(a, b) == \A i \in a..b : q[i].result = Some("loss")
      lens == {0} \cup {b - a + 1 : <<a, b>> \in
                          {w \in (1..Len(q)) \X (1..Len(q)) : w[1] <= w[2] /\ IsRun(w[1], w[2])}}
  IN CHOOSE m \in lens : \A k \in lens : k <= m

\* _analyze_risk_metrics: {} when no record has a final_pnl.
analyze_risk_metrics(strategies) ==
  LET with == SelectSeq(strategies, LAMBDA x : x.final_pnl # None)
      pnls == {with[i].final_pnl[1] : i \in 1..Len(with)}
  IN IF with = <<>> THEN <<>>
     ELSE [max_consecutive_losses |-> calculate_max_consecutive_losses(strategies),
           largest_win |-> CHOOSE v \in pnls : \A w \in pnls : w <= v,
           largest_loss |-> CHOOSE v \in pnls : \A w \in pnls : v <= w]

\* Lines 86-120: the sections of the report.
report_sections(strategies) ==
  LET metrics == calculate_performance_metrics(strategies)
  IN [summary |-> [total_trades |-> metrics.total_trades,
                   win_rate |-> metrics.win_rate,
                   net_pnl |-> metrics.net_pnl,
                   profit_factor |-> metrics.profit_factor,
                   max_drawdown |-> metrics.max_drawdown],
      detailed_metrics |-> [winning_trades |-> metrics.winning_trades,
                            losing_trades |-> metrics.losing_trades,
                            breakeven_trades |-> metrics.breakeven_trades,
                            total_profit |-> metrics.total_profit,
                            total_loss |-> metrics.total_loss],
      strategy_breakdown |-> analyze_strategy_breakdown(strategies),
      time_analysis |-> analyze_time_performance(strategies),
      risk_analysis |-> analyze_risk_metrics(strategies)]

\* generate_performance_report without lines 83-84.
generate_performance_report_unguarded(strategies) == report_sections(strategies)

\* generate_performance_report
generate_performance_report(strategies) ==
  IF strategies = <<>> THEN [error |-> "No strategies to analyze"]
  ELSE report_sections(strategies)

\* The analyzer is handed a list of records.
AnalyzerInit ==
  /\ now = 0
  /\ db = <<>>
  /\ obj = <<>>
  /\ active = <<>>
  /\ loads = 0
  /\ created = <<>>
  /\ monitoring = FALSE
  /\ monitor_thread = None
  /\ callbacks = <<>>
  /\ loopArgs = [l \in Loops |-> [interval |-> 0, func |-> None]]
  /\ pc = [t \in Threads |-> IF t = Main THEN "analyze"
                             ELSE IF t \in Callers THEN "idle" ELSE "unborn"]
  /\ \E n \in 0..MaxStrategies : \E strategies \in [1..n -> AnalyzerRecords] :
       loc = [t \in Threads |-> IF t = Main THEN [NoLocals EXCEPT !.tmp = strategies]
                                ELSE NoLocals]
  /\ prevPass = [t \in Callers |-> {}]
  /\ completions = [i \in Ids |-> 0]
  /\ invoked = [l \in Loops |-> <<>>]
  /\ cbTouched = [l \in Loops |-> FALSE]
  /\ calls = [passes |-> 0, updates |-> 0, removes |-> 0]

\* The call calculate_performance_metrics(strategies); the thread keeps the
\* list next to the returned metrics.
calculate_performance_metrics_call(t) ==
  /\ pc[t] = "analyze"
  /\ loc' = [loc EXCEPT ![t].op = "calculate_performance_metrics",
                         ![t].val = calculate_performance_metrics(loc[t].tmp)]
  /\ Goto(t, "return")
  /\ UNCHANGED <<now, db, obj, active, loads, created, prevPass, completions,
                 calls, monVars>>

\* The call generate_performance_report(strategies).
generate_performance_report_call(t) ==
  /\ pc[t] = "analyze"
  /\ loc' = [loc EXCEPT ![t].op = "generate_performance_report",
                         ![t].val = generate_performance_report(loc[t].tmp)]
  /\ Goto(t, "return")
  /\ UNCHANGED <<now, db, obj, active, loads, created, prevPass, completions,
                 calls, monVars>>

AnalyzerNext ==
  \/ calculate_performance_metrics_call(Main)
  \/ generate_performance_report_call(Main)
  \/ Returned(Main)

AnalyzerSpec == AnalyzerInit /\ [][AnalyzerNext]_vars

\* --------------------------------------- core/options_strategies.py
\* OptionsStrategy.analyze on a CallDebitSpread. Prices and payoffs on the
\* grid are held in units of 1 / GridScale dollar, in which every point of
\* np.linspace(0.7 * price, 1.3 * price, 100) is a whole number.
GridPoints == 100
GridSteps == (GridPoints - 1) \div 3
GridScale == 10 * GridSteps
GridIndex == 0..(GridPoints - 1)

\* spot_range[i]: 0.7 * price + i * (0.6 * price) / (GridPoints - 1), which
\* is price * (7 * GridSteps + 2 * i) / GridScale.
spot_range(underlying_price) ==
  [i \in GridIndex |-> underlying_price * (7 * GridSteps + 2 * i)]

maximum(a, b) == IF a >= b THEN a ELSE b

\* What a CallDebitSpread is made with: CallDebitSpread(underlying_price) and
\* add_legs(lower_strike, upper_strike, lower_premium, upper_premium, ...).
SpreadArgs ==
  [underlying_price : {100, 150, 200}, lower_strike : {100, 145, 150},
   upper_strike : {110, 145, 155}, lower_premium : {1, 3}, upper_premium : {1, 3}]

\* add_legs: the long call at lower_strike and the short call at upper_strike.
add_legs(a) ==
  <<[option_type |-> "call", strike |-> a.lower_strike,
     premium |-> a.lower_premium, quantity |-> 1],
    [option_type |-> "call", strike |-> a.upper_strike,
     premium |-> a.upper_premium, quantity |-> -1]>>

\* CallDebitSpread.calculate_payoff with the short call left out.
calculate_payoff_long_only(legs, spot_prices) ==
  LET long_call == legs[1]
      short_call == legs[2]
      net_debit == (long_call.premium - short_call.premium) * GridScale
  IN [i \in DOMAIN spot_prices |->
        maximum(spot_prices[i] - long_call.strike * GridScale, 0) - net_debit]

\* CallDebitSpread.calculate_payoff
calculate_payoff(legs, spot_prices) ==
  LET long_call == legs[1]
      short_call == legs[2]
      net_debit == (long_call.premium - short_call.premium) * GridScale
  IN [i \in DOMAIN spot_prices |->
        maximum(spot_prices[i] - long_call.strike * GridScale, 0)
          - maximum(spot_prices[i] - short_call.strike * GridScale, 0)
          - net_debit]

\* _find_breakevens: where the payoff changes sign between two points, the
\* linear interpolation rounded to two decimals, in hundredths of a dollar,
\* in the order of the grid. The quotient n / dy is a price, so n and dy have
\* the same sign.
find_breakevens(prices, payoffs) ==
  LET crossings == {i \in 0..(GridPoints - 2) :
                      \/ payoffs[i] < 0 /\ payoffs[i + 1] > 0
                      \/ payoffs[i] > 0 /\ payoffs[i + 1] < 0}
      breakeven(i) ==
        LET dy == payoffs[i + 1] - payoffs[i]
            n == prices[i] * dy - payoffs[i] * (prices[i + 1] - prices[i])
        IN IF dy > 0 THEN RoundDiv(n * 100, dy * GridScale)
           ELSE RoundDiv((-n) * 100, (-dy) * GridScale)
  IN [k \in 1..Cardinality(crossings) |->
        breakeven(CHOOSE i \in crossings :
                    Cardinality({j \in crossings : j < i}) = k - 1)]

\* OptionsStrategy.analyze; profit_probability is held as the number of grid
\* points with a positive payoff, payoff_at_expiration by the index of the
\* point.
analyze(underlying_price, legs) ==
  LET spot == spot_range(underlying_price)
      payoffs == calculate_payoff(legs, spot)
  IN [breakeven_points |-> find_breakevens(spot, payoffs),
      max_profit |-> CHOOSE v \in {payoffs[i] : i \in GridIndex} :
                       \A i \in GridIndex : payoffs[i] <= v,
      max_loss |-> CHOOSE v \in {payoffs[i] : i \in GridIndex} :
                     \A i \in GridIndex : v <= payoffs[i],
      profit_probability |-> Cardinality({i \in GridIndex : payoffs[i] > 0}),
      payoff_at_expiration |-> payoffs,
      strategy_name |-> "Call Debit Spread (Bullish)"]

\* A CallDebitSpread has been made and given its legs.
SpreadInit ==
  /\ now = 0
  /\ db = <<>>
  /\ obj = <<>>
  /\ active = <<>>
  /\ loads = 0
  /\ created = <<>>
  /\ monitoring = FALSE
  /\ monitor_thread = None
  /\ callbacks = <<>>
  /\ loopArgs = [l \in Loops |-> [interval |-> 0, func |-> None]]
  /\ pc = [t \in Threads |-> IF t = Main THEN "spread"
                             ELSE IF t \in Callers THEN "idle" ELSE "unborn"]
  /\ \E a \in SpreadArgs :
       loc = [t \in Threads |-> IF t = Main THEN [NoLocals EXCEPT !.tmp = a]
                                ELSE NoLocals]
  /\ prevPass = [t \in Callers |-> {}]
  /\ completions = [i \in Ids |-> 0]
  /\ invoked = [l \in Loops |-> <<>>]
  /\ cbTouched = [l \in Loops |-> FALSE]
  /\ calls = [passes |-> 0, updates |-> 0, removes |-> 0]

\* The call strategy.analyze(); the thread keeps what the spread was made
\* with next to the returned StrategyResult.
analyze_call(t) ==
  /\ pc[t] = "spread"
  /\ loc' = [loc EXCEPT ![t].op = "analyze",
                         ![t].val = analyze(loc[t].tmp.underlying_price,
                                            add_legs(loc[t].tmp))]
  /\ Goto(t, "return")
  /\ UNCHANGED <<now, db, obj, active, loads, created, prevPass, completions,
                 calls, monVars>>

SpreadNext ==
  \/ analyze_call(Main)
  \/ Returned(Main)

SpreadSpec == SpreadInit /\ [][SpreadNext]_vars

\* ----------------------- settlement of the records the engine builds
\* process_expired_strategies, lines 158-161, for a record that
\* add_strategy_for_backtesting has built and tracked: the price lookup
\* returns current_price and calculate_strategy_result is applied to the
\* record's own fields. The thread keeps the record, the price and the
\* arguments of the add next to the returned triple.
SettlePrices == {140, 145, 146, 147, 150, 154, 155, 160}

calculate_strategy_result_of_built(t, current_price) ==
  /\ pc[t] = "return"
  /\ InEngineAdd(t)
  /\ loc[t].val # None
  /\ loc' = [loc EXCEPT ![t].op = "calculate_strategy_result",
                         ![t].tmp = <<loc[t].tmp[2][1], current_price, loc[t].tmp[1]>>,
                         ![t].val = calculate_strategy_result(loc[t].tmp[2][1], current_price)]
  /\ UNCHANGED <<now, db, obj, active, loads, created, pc, prevPass, completions,
                 calls, monVars>>

SettleNext ==
  \/ \E a \in EngineArgs : add_strategy_for_backtesting_build(Main, a)
  \/ add_strategy_for_backtesting_track(Main)
  \/ add_strategy_for_backtesting_append(Main)
  \/ \E p \in SettlePrices : calculate_strategy_result_of_built(Main, p)
  \/ Returned(Main)

SettleSpec == Init /\ [][SettleNext]_vars

\* ------------------------------ delivery of the completed records
\* BacktestEngine.price_function as an idle caller finds it: None before the
\* first start_automated_backtesting (line 30), then what that start was
\* given (line 47), which is also what it started the loop with.
engine_price_function ==
  IF monitor_thread = None THEN None ELSE loopArgs[monitor_thread[1]].func

\* manual_check_expired_strategies: [] without a price function, else the
\* tracker's process_expired_strategies, whose list it returns.
manual_check_expired_strategies(t) ==
  /\ pc[t] = "idle"
  /\ calls.passes < MaxPasses
  /\ calls' = [calls EXCEPT !.passes = @ + 1]
  /\ IF engine_price_function = None
     THEN Return(t, "manual_check_expired_strategies", 0, {})
     ELSE pe_begin(t)
  /\ UNCHANGED <<now, db, obj, active, loads, created, prevPass, completions, monVars>>

\* An engine over a store in which an earlier process left every record
\* ACTIVE and past its expiration: it is started, its loop polls, and the
\* caller runs manual checks.
DeliverInit ==
  /\ RestartInit
  /\ now = MaxTime
  /\ DOMAIN db = Ids
  /\ \A id \in Ids : db[id] = NewFields
  /\ \A i \in 1..Len(created) : created[i] = i

DeliverNext ==
  \/ \E a \in StartArgs : start_automated_backtesting_load(Main, a[1], a[2])
  \/ start_automated_backtesting_assign(Main)
  \/ start_automated_backtesting_start(Main)
  \/ start_automated_backtesting_callback(Main)
  \/ manual_check_expired_strategies(Main)
  \/ PassStep(Main)
  \/ process_expired_return(Main)
  \/ Returned(Main)
  \/ \E l \in Loops : monitor_loop_test(l)
  \/ \E l \in Loops : PassStep(l)
  \/ \E l \in Loops : monitor_loop_dispatch(l)
  \/ \E l \in Loops : monitor_loop_callback(l)
  \/ \E l \in Loops : monitor_loop_sleep(l)
  \/ \E l \in Loops : monitor_loop_wake(l)
  \/ \E l \in Loops : monitor_loop_backoff(l)

DeliverSpec == DeliverInit /\ [][DeliverNext]_vars

\* ------------------------- adds while the engine is being started
\* One thread starts the engine (load_active_strategies, then the loop, whose
\* cycles run process_expired_strategies) while another adds records.
Adder == <<"caller", 2>>

RaceNext ==
  \/ Tick
  \/ \E id \in Ids : add_strategy_save(Adder, id)
  \/ add_strategy_append(Adder)
  \/ Returned(Adder)
  \/ \E a \in StartArgs : start_automated_backtesting_load(Main, a[1], a[2])
  \/ start_automated_backtesting_assign(Main)
  \/ start_automated_backtesting_start(Main)
  \/ start_automated_backtesting_callback(Main)
  \/ Returned(Main)
  \/ \E l \in Loops : monitor_loop_test(l)
  \/ \E l \in Loops : PassStep(l)
  \/ \E l \in Loops : monitor_loop_dispatch(l)
  \/ \E l \in Loops : monitor_loop_callback(l)
  \/ \E l \in Loops : monitor_loop_sleep(l)
  \/ \E l \in Loops : monitor_loop_wake(l)
  \/ \E l \in Loops : monitor_loop_backoff(l)

RaceSpec == Init /\ [][RaceNext]_vars

\* ------------------------------------------------------------ the claims
Completed(id) == id \in DOMAIN db /\ db[id].status = "completed"
AtReturn(t, op) == pc[t] = "return" /\ loc[t].op = op
Quiescent == \A t \in Callers : pc[t] = "idle"
PassOver(t) == pc[t] = "pe_next" /\ loc[t].idx > Len(loc[t].expired)
CompletionFields(f) ==
  <<f.status, f.exit_price, f.exit_date, f.final_pnl, f.result, f.exit_reason>>

\* C1: with concurrent add_strategy calls and one process_expired pass, once
\* all calls are over every record whose add succeeded is exactly once in the
\* union of the active set and the completed records.
C1_AddedExactlyOnce ==
  (Quiescent /\ calls.passes <= 1) =>
    \A id \in DOMAIN db :
      Count(active, id) + (IF Completed(id) THEN 1 ELSE 0) = 1

\* C2: a pass that directly follows another pass of the same caller returns
\* none of the records the first one returned.
C2_SecondPassReturnsNoneOfFirst ==
  \A t \in Callers :
    AtReturn(t, "process_expired_strategies") => loc[t].val \cap prevPass[t] = {}

C2_Witness ==
  \E t \in Callers :
    /\ AtReturn(t, "process_expired_strategies")
    /\ prevPass[t] # {}
    /\ loc[t].val = {}

\* C3: an expired record a pass has gone past without completing it (price
\* lookup raised, or the store update failed) is still in the active set with
\* the status and completion fields it had when the pass began.
C3_FailedRecordUnchanged ==
  \A t \in Callers :
    pc[t] = "pe_next" =>
      \A i \in 1..Len(loc[t].expired) :
        (i < loc[t].idx /\ loc[t].expired[i] \notin Range(loc[t].processed)) =>
          /\ loc[t].expired[i] \in Range(active)
          /\ CompletionFields(obj[loc[t].expired[i]])
               = CompletionFields(loc[t].snap[loc[t].expired[i]])

\* C4: no record is returned as completed more than once, whatever passes
\* overlap.
C4_CompletedAtMostOnce == \A id \in Ids : completions[id] <= 1

\* C5: a row whose status is completed keeps that status in every step.
C5_CompletionMonotonic ==
  [][\A id \in DOMAIN db : db[id].status = "completed" => db'[id].status = "completed"]_vars

\* C6: when a pass is about to return, the records in its processed list are
\* exactly the expired records whose settlement it persisted: each has a
\* completed row holding the exit price this pass computed and is out of the
\* active set, and every expired record not in the list is still active.
C6_ReturnsExactlyTheCompleted ==
  \A t \in Callers :
    PassOver(t) =>
      \A i \in 1..Len(loc[t].expired) :
        LET r == loc[t].expired[i]
        IN IF r \in Range(loc[t].processed)
           THEN /\ Completed(IdOf(r))
                /\ IdOf(r) \notin SeqIds(active)
                /\ db[IdOf(r)].exit_price = obj[r].exit_price
           ELSE r \in Range(active)

C6_Witness ==
  \E t \in Callers :
    /\ PassOver(t)
    /\ Len(loc[t].processed) >= 1
    /\ Len(loc[t].processed) < Len(loc[t].expired)

\* C7: add_strategy returns False exactly when the store write failed, and
\* then the record has no row and is not in the active set; when it returns
\* True the record has a row and is in the active set.
C7_AddTracksIffSaved ==
  \A t \in Callers :
    AtReturn(t, "add_strategy") =>
      IF loc[t].val
      THEN loc[t].sid \in DOMAIN db /\ <<loc[t].sid, 0>> \in Range(active)
      ELSE loc[t].sid \notin DOMAIN db /\ loc[t].sid \notin SeqIds(active)

C7_Witness ==
  \E t \in Callers :
    /\ AtReturn(t, "add_strategy")
    /\ ~loc[t].val
    /\ active # <<>>

\* C8: a start_monitoring call made while monitoring is on returns at once,
\* starts no loop thread and leaves the flag, the thread handle and every
\* started loop's interval and price function as they were.
C8_StartWhileRunningIsNoop ==
  [][\A t \in Callers :
       (pc[t] = "idle" /\ pc'[t] # "idle" /\ loc'[t].op = "start_monitoring"
          /\ monitoring)
       => /\ pc'[t] = "return"
          /\ monitoring' /\ monitor_thread' = monitor_thread
          /\ loopArgs' = loopArgs
          /\ \A l \in Loops : pc'[l] = pc[l]]_vars

Live(l) == pc[l] \notin {"unborn", "exited"}

C8_Witness ==
  \E t \in Callers :
    /\ AtReturn(t, "start_monitoring")
    /\ loc[t].val = "noop"
    /\ monitoring
    /\ \E l \in Loops : Live(l) /\ monitor_thread = Some(l)
    /\ \E l \in Loops : pc[l] = "unborn"

\* A record of the active set whose object carries a completion its row does
\* not: status COMPLETED and exit fields in memory, the row still not completed.
HalfUpdated(r) ==
  /\ r \in Range(active)
  /\ obj[r].status = "completed"
  /\ ~Completed(IdOf(r))

\* C9: once monitoring is off and every started loop has exited, no record is
\* half-updated.
C9_StoppedLeavesNoHalfUpdate ==
  (~monitoring /\ (\E l \in Loops : pc[l] = "exited")
     /\ \A l \in Loops : ~Live(l))
  => \A r \in Range(active) : ~HalfUpdated(r)

\* The loop that has seen the flag off at its while test has exited: it is in
\* no cycle and begins none.
C9_ExitedLoopStaysExited ==
  [][\A l \in Loops : pc[l] = "exited" => pc'[l] = "exited"]_vars

\* Once monitoring is off for good, every started loop ends.
C9_LoopEventuallyExits ==
  <>[](~monitoring) => <>[](\A l \in Loops : ~Live(l))

\* The for loop over self.callbacks of this cycle is over.
DispatchOver(l) ==
  /\ loc[l].op = "cycle"
  /\ \/ pc[l] = "dispatch" /\ loc[l].idx > Len(callbacks)
     \/ pc[l] = "backoff"

\* C10: when a cycle's dispatch is over and self.callbacks was not changed
\* during it, every registered callback was invoked once, in registration
\* order, with the cycle's processed list, whatever the earlier ones raised.
C10_EveryCallbackInvoked ==
  \A l \in Loops :
    (DispatchOver(l) /\ ~cbTouched[l]) =>
      /\ Len(invoked[l]) = Len(callbacks)
      /\ \A i \in 1..Len(callbacks) :
           /\ invoked[l][i][1] = callbacks[i]
           /\ invoked[l][i][2] = loc[l].val

C10_Witness ==
  \E l \in Loops :
    /\ DispatchOver(l) /\ ~cbTouched[l]
    /\ Len(callbacks) = MaxCallbacks
    /\ loc[l].val # <<>>
    /\ invoked[l][1][3] = "raised"

\* The loop threads are scheduled: a thread that can step eventually does.
MonFairSpec ==
  MonSpec /\ \A l \in Loops :
    WF_vars(monitor_loop_test(l) \/ PassStep(l) \/ monitor_loop_dispatch(l)
              \/ monitor_loop_sleep(l) \/ monitor_loop_wake(l)
              \/ monitor_loop_backoff(l))

\* The same scheduling for the loop of the dispatch specification.
CbFairSpec ==
  CbSpec /\ \A l \in Loops :
    WF_vars(monitor_loop_test(l) \/ PassStep(l) \/ monitor_loop_dispatch(l)
              \/ monitor_loop_callback(l) \/ monitor_loop_sleep(l)
              \/ monitor_loop_wake(l) \/ monitor_loop_backoff(l))

\* Something failed in the loop's current cycle: an expired record was passed
\* over without being completed (price lookup or store update failed), a
\* callback raised, or an exception reached the outer handler.
FailedInCycle(l) ==
  \/ pc[l] = "backoff"
  \/ /\ pc[l] = "pe_next"
     /\ \E i \in 1..Len(loc[l].expired) :
          i < loc[l].idx /\ loc[l].expired[i] \notin Range(loc[l].processed)
  \/ /\ pc[l] = "dispatch"
     /\ \E i \in 1..Len(invoked[l]) : invoked[l][i][3] = "raised"

\* The loop has begun a cycle: process_expired_strategies has just read the
\* expired records off the active set and has examined none yet.
NewCycle(l) == pc[l] = "pe_next" /\ loc[l].idx = 1

\* C11: after a failure in a cycle of a loop that processes records, the loop
\* begins another cycle, unless monitoring is switched off.
C11_LoopSurvivesFailure ==
  \A l \in Loops :
    (FailedInCycle(l) /\ loopArgs[l].func # None) ~> (~monitoring \/ NewCycle(l))

C11_Witness ==
  \E l \in Loops :
    /\ pc[l] = "backoff" /\ monitoring
    /\ loopArgs[l].func # None
    /\ \E r \in Range(active) : HalfUpdated(r)

\* C12: whenever a callback is invoked, the list it receives holds at least
\* one completed record.
C12_CallbackNeverGetsEmptyList ==
  \A l \in Loops :
    \A i \in 1..Len(invoked[l]) : invoked[l][i][2] # <<>>

\* The sign of pnl as PROFIT, LOSS or BREAKEVEN.
BySign(pnl) == IF pnl > 0 THEN "profit" ELSE IF pnl < 0 THEN "loss" ELSE "breakeven"

\* The record of the scenarios: strikes 145/155, cost 2, one contract.
Scenario(name) ==
  [strategy_name |-> name, lower_strike |-> 145, upper_strike |-> 155,
   initial_cost |-> 2, max_profit |-> 8, max_loss |-> 2, contracts |-> 1]

\* C13: for a Call Debit Spread record calculate_strategy_result returns
\* max_profit/PROFIT at or above the upper strike, -max_loss/LOSS at or below
\* the lower strike, and between them (price - lower_strike - initial_cost) *
\* contracts with the result given by its sign; the scenario record gives
\* 8/PROFIT at 160, -2/LOSS at 140 and 0/BREAKEVEN at 147.
C13_CallDebitSettlement ==
  \A t \in Callers :
    (AtReturn(t, "calculate_strategy_result")
       /\ loc[t].tmp[1].strategy_name = "Call Debit Spread") =>
      LET s == loc[t].tmp[1]
          price == loc[t].tmp[2]
          pnl == loc[t].val[1]
          result == loc[t].val[2]
      IN /\ price >= s.upper_strike => pnl = s.max_profit /\ result = "profit"
         /\ price <= s.lower_strike => pnl = -s.max_loss /\ result = "loss"
         /\ (s.lower_strike < price /\ price < s.upper_strike) =>
              /\ pnl = (price - s.lower_strike - s.initial_cost) * s.contracts
              /\ result = BySign(pnl)
         /\ s = Scenario("Call Debit Spread") =>
              /\ price = 160 => pnl = 8 /\ result = "profit"
              /\ price = 140 => pnl = -2 /\ result = "loss"
              /\ price = 147 => pnl = 0 /\ result = "breakeven"

C13_Witness ==
  \E t \in Callers :
    /\ AtReturn(t, "calculate_strategy_result")
    /\ loc[t].tmp = <<Scenario("Call Debit Spread"), 147>>
    /\ loc[t].val[2] = "breakeven"

\* C14: for a Put Debit Spread record calculate_strategy_result returns
\* max_profit/PROFIT at or below the lower strike, -max_loss/LOSS at or above
\* the upper strike, and between them (upper_strike - price - initial_cost) *
\* contracts with the result given by its sign; the scenario record gives
\* max_profit at 140 and -max_loss at 160.
C14_PutDebitSettlement ==
  \A t \in Callers :
    (AtReturn(t, "calculate_strategy_result")
       /\ loc[t].tmp[1].strategy_name = "Put Debit Spread") =>
      LET s == loc[t].tmp[1]
          price == loc[t].tmp[2]
          pnl == loc[t].val[1]
          result == loc[t].val[2]
      IN /\ price <= s.lower_strike => pnl = s.max_profit /\ result = "profit"
         /\ price >= s.upper_strike => pnl = -s.max_loss /\ result = "loss"
         /\ (s.lower_strike < price /\ price < s.upper_strike) =>
              /\ pnl = (s.upper_strike - price - s.initial_cost) * s.contracts
              /\ result = BySign(pnl)
         /\ s = Scenario("Put Debit Spread") =>
              /\ price = 140 => pnl = 8 /\ result = "profit"
              /\ price = 160 => pnl = -2 /\ result = "loss"

C14_Witness ==
  \E t \in Callers :
    /\ AtReturn(t, "calculate_strategy_result")
    /\ loc[t].tmp = <<Scenario("Put Debit Spread"), 140>>
    /\ loc[t].val[1] = 8

UnknownKind(id) ==
  strategy_name(id) \notin {"Call Debit Spread", "Put Debit Spread"}

\* C15: a record of an unknown strategy kind that a pass settles is completed
\* like any other, with final_pnl 0, result BREAKEVEN and the reason "Unknown
\* strategy type": it is in the pass's processed list, out of the active set,
\* and its row is completed with these values.
C15_UnknownKindBreaksEven ==
  \A t \in Callers :
    pc[t] = "pe_next" =>
      \A i \in 1..Len(loc[t].processed) :
        LET id == IdOf(loc[t].processed[i])
        IN UnknownKind(id) =>
             /\ Completed(id)
             /\ id \notin SeqIds(active)
             /\ db[id].final_pnl = Some(0)
             /\ db[id].result = Some("breakeven")
             /\ db[id].exit_reason = Some("Unknown strategy type")

\* A pass has completed an unknown-kind record and, after it, another record.
C15_Witness ==
  \E t \in Callers :
    /\ PassOver(t)
    /\ Len(loc[t].processed) = 2
    /\ UnknownKind(IdOf(loc[t].processed[1]))
    /\ ~UnknownKind(IdOf(loc[t].processed[2]))
    /\ Completed(IdOf(loc[t].processed[2]))

Supported(name) == name \in {"Call Debit Spread", "Put Debit Spread"}

\* C16: an engine add for a strategy name other than the two debit spreads
\* returns None in one step that leaves the store, the objects and the active
\* set as they were.
C16_UnsupportedKindCreatesNothing ==
  [][\A t \in Callers :
       (pc[t] = "idle" /\ InEngineAdd(t)' /\ ~Supported(loc'[t].tmp[1].strategy_name))
       => /\ pc'[t] = "return" /\ loc'[t].val = None
          /\ UNCHANGED <<db, obj, active, created>>]_vars

C16_Witness ==
  \E t \in Callers :
    /\ pc[t] = "return" /\ InEngineAdd(t)
    /\ loc[t].tmp[1].strategy_name = "Iron Condor"
    /\ loc[t].val = None
    /\ active # <<>>

\* Strikes and premiums are positive and the lower strike is below the upper.
ValidSpread(a) ==
  /\ a.lower_strike < a.upper_strike
  /\ a.lower_strike > 0 /\ a.upper_strike > 0
  /\ a.lower_premium > 0 /\ a.upper_premium > 0

\* C17: an engine add for a debit spread whose strikes or premiums are not
\* valid builds no record and returns None.
C17_InvalidSpreadRejected ==
  \A t \in Callers :
    (InEngineAdd(t) /\ Supported(loc[t].tmp[1].strategy_name)
       /\ ~ValidSpread(loc[t].tmp[1]))
    => /\ pc[t] = "return" /\ loc[t].val = None
       /\ loc[t].tmp[2] = None

\* The net debit of a spread: what the long leg costs above the short one.
NetDebit(a) ==
  IF a.strategy_name = "Call Debit Spread"
  THEN a.lower_premium - a.upper_premium
  ELSE a.upper_premium - a.lower_premium

\* C18: the record an engine add builds for a debit spread has status ACTIVE,
\* initial_cost = max_loss = net debit * contracts and max_profit =
\* (upper_strike - lower_strike - net debit) * contracts (2, 8 and 2 for the
\* call spread 145/155 with premiums 3/1 and one contract); when the add
\* returns its id, the record is stored and tracked with that status.
C18_EngineAddComputesRecord ==
  \A t \in Callers :
    (InEngineAdd(t) /\ loc[t].tmp[2] # None) =>
      LET a == loc[t].tmp[1]
          r == loc[t].tmp[2][1]
      IN /\ r.status = "active"
         /\ r.initial_cost = NetDebit(a) * a.contracts
         /\ r.max_loss = NetDebit(a) * a.contracts
         /\ r.max_profit = (a.upper_strike - a.lower_strike - NetDebit(a)) * a.contracts
         /\ (a.strategy_name = "Call Debit Spread" /\ a.lower_strike = 145
               /\ a.upper_strike = 155 /\ a.lower_premium = 3
               /\ a.upper_premium = 1 /\ a.contracts = 1)
            => (r.initial_cost = 2 /\ r.max_profit = 8 /\ r.max_loss = 2)
         /\ (pc[t] = "return" /\ loc[t].val # None) =>
              /\ loc[t].val = Some(loc[t].sid)
              /\ Completed(loc[t].sid) = FALSE
              /\ db[loc[t].sid].status = "active"
              /\ obj[<<loc[t].sid, 0>>].status = "active"
              /\ <<loc[t].sid, 0>> \in Range(active)

C18_Witness ==
  \E t \in Callers :
    /\ pc[t] = "return" /\ InEngineAdd(t)
    /\ loc[t].val # None
    /\ loc[t].tmp[2] # None
    /\ loc[t].tmp[1].strategy_name = "Put Debit Spread"
    /\ loc[t].tmp[2][1].max_profit = 8

\* The ids of the rows whose status is PENDING or ACTIVE.
ActiveRows == {id \in DOMAIN db : db[id].status \in {"pending", "active"}}

C20_CloseIsNotPersisted ==
  [][\A t \in Callers :
       /\ (loc[t].op = "remove_strategy" /\ pc'[t] # pc[t]) =>
            /\ db' = db /\ obj' = obj
            /\ pc[t] = "rm_assign" =>
                 /\ SeqIds(active') = SeqIds(active) \ {loc[t].sid}
                 /\ loc'[t].val = TRUE
       /\ (pc[t] = "la_assign" /\ pc'[t] # pc[t] /\ loc[t].tmp # <<>>) =>
            /\ db' = db
            /\ SeqIds(active') = ActiveRows]_vars

\* A load is putting back a record a manual close took out of the active
\* set: its row is still ACTIVE and was never rewritten, and nothing but
\* remove_strategy has taken it off the list.
C20_Witness ==
  \E t \in Callers :
    /\ pc[t] = "la_assign"
    /\ calls.updates = 0 /\ calls.removes >= 1
    /\ \E id \in SeqIds(loc[t].tmp) :
         /\ id \notin SeqIds(active)
         /\ db[id].status = "active"

\* The active records whose expiration_date is at or before the given time.
DueAt(time) == {r \in Range(active) : Params(IdOf(r)).expiration_date <= time}

\* C21: the list a pass takes from get_expired_strategies holds exactly the
\* active records whose expiration_date is at or before the current time, and
\* the step of a pass that writes a completion to the store writes it for a
\* record whose expiration_date is at or before the time of that step, with
\* that time as exit_date.
C21_OnlyExpiredAreCompleted ==
  [][\A t \in Callers :
       /\ (pc[t] = "idle" /\ pc'[t] = "pe_next") =>
            /\ Range(loc'[t].expired) = DueAt(now)
            /\ Len(loc'[t].expired) = Cardinality(DueAt(now))
       /\ (pc[t] = "pe_update" /\ db' # db) =>
            LET id == IdOf(loc[t].expired[loc[t].idx])
            IN /\ Params(id).expiration_date <= now
               /\ db'[id].status = "completed"
               /\ db'[id].exit_date = Some(now)
               /\ \A other \in DOMAIN db : other # id => db'[other] = db[other]]_vars

\* A pass made before the second record's expiration has completed the first
\* and left the second, which is still active and has no completion.
C21_Witness ==
  \E t \in Callers :
    /\ PassOver(t)
    /\ now = 0
    /\ SeqIds(loc[t].processed) = {5}
    /\ Completed(5)
    /\ <<1, 0>> \in Range(active) /\ ~Completed(1)

\* C22: the profit_factor of the metrics is 0 for an empty list, infinite
\* exactly when total_loss = 0 and total_profit > 0, and total_profit /
\* total_loss (to two decimals) whenever total_loss > 0.
C22_ProfitFactor ==
  \A t \in Callers :
    AtReturn(t, "calculate_performance_metrics") =>
      LET m == loc[t].val
      IN /\ loc[t].tmp = <<>> => m.profit_factor = Finite(0)
         /\ loc[t].tmp # <<>> =>
              (m.profit_factor.inf <=> (m.total_loss = 0 /\ m.total_profit > 0))
         /\ m.total_loss > 0 =>
              m.profit_factor = Finite(RoundDiv(m.total_profit * 100, m.total_loss))

\* C23: max_drawdown is never negative; it is at most 100 when the cumulative
\* P&L in entry order never goes below zero; and the drawdown is 0 at every
\* entry where the running peak is at or below zero.
C23_MaxDrawdownBounds ==
  \A t \in Callers :
    AtReturn(t, "calculate_performance_metrics") =>
      LET cumulative_pnl == calculate_cumulative_pnl(loc[t].tmp)
          points == 1..Len(cumulative_pnl)
      IN /\ loc[t].val.max_drawdown >= 0
         /\ (\A i \in points : cumulative_pnl[i] >= 0) =>
              loc[t].val.max_drawdown <= 100 * 100
         /\ \A i \in points :
              (\A j \in 1..i : cumulative_pnl[j] <= 0) =>
                drawdown_at(cumulative_pnl, i).num = 0

\* Metrics of a list whose cumulative P&L stays positive and falls from its
\* peak of 8 to 2: a drawdown of 75 percent.
C23_Witness ==
  \E t \in Callers :
    /\ AtReturn(t, "calculate_performance_metrics")
    /\ calculate_cumulative_pnl(loc[t].tmp) = <<8, 5, 2>>
    /\ loc[t].val.max_drawdown = 7500

\* C24: generate_performance_report of an empty list returns the "No
\* strategies to analyze" result and nothing else: no summary, metrics,
\* breakdown, time or risk section.
C24_EmptyReport ==
  \A t \in Callers :
    (AtReturn(t, "generate_performance_report") /\ loc[t].tmp = <<>>) =>
      /\ DOMAIN loc[t].val = {"error"}
      /\ loc[t].val.error = "No strategies to analyze"

C24_Witness ==
  \E t \in Callers :
    /\ AtReturn(t, "generate_performance_report")
    /\ loc[t].tmp = <<>>
    /\ "error" \in DOMAIN loc[t].val

\* Both strikes lie on the sampled range 0.7 .. 1.3 of the underlying price.
InsideGrid(a) ==
  /\ 7 * a.underlying_price <= 10 * a.lower_strike
  /\ 10 * a.upper_strike <= 13 * a.underlying_price

\* C25: for a call debit spread with lower_strike < upper_strike, both on the
\* sampled range, the payoff is the strike width less the net debit at every
\* sampled price at or above the upper strike and minus the net debit at every
\* sampled price at or below the lower strike; analyze reports the two as
\* max_profit and max_loss and every sampled payoff lies between them (8 and
\* -2 for 145/155 with premiums 3/1 at 150).
C25_CallDebitPayoff ==
  \A t \in Callers :
    (AtReturn(t, "analyze") /\ loc[t].tmp.lower_strike < loc[t].tmp.upper_strike
       /\ InsideGrid(loc[t].tmp)) =>
      LET a == loc[t].tmp
          r == loc[t].val
          spot == spot_range(a.underlying_price)
          net_debit == a.lower_premium - a.upper_premium
          top == (a.upper_strike - a.lower_strike - net_debit) * GridScale
          bottom == (-net_debit) * GridScale
      IN /\ \A i \in GridIndex :
              /\ spot[i] >= a.upper_strike * GridScale => r.payoff_at_expiration[i] = top
              /\ spot[i] <= a.lower_strike * GridScale => r.payoff_at_expiration[i] = bottom
              /\ bottom <= r.payoff_at_expiration[i]
              /\ r.payoff_at_expiration[i] <= top
         /\ r.max_profit = top
         /\ r.max_loss = bottom
         /\ (a.underlying_price = 150 /\ a.lower_strike = 145 /\ a.upper_strike = 155
               /\ a.lower_premium = 3 /\ a.upper_premium = 1)
            => r.max_profit = 8 * GridScale /\ r.max_loss = (-2) * GridScale

C25_Witness ==
  \E t \in Callers :
    /\ AtReturn(t, "analyze")
    /\ loc[t].tmp = [underlying_price |-> 150, lower_strike |-> 145,
                     upper_strike |-> 155, lower_premium |-> 3, upper_premium |-> 1]
    /\ loc[t].val.max_profit = 8 * GridScale
    /\ loc[t].val.breakeven_points = <<14700>>

\* C26: for a record the engine built with lower_strike < upper_strike, a
\* positive net debit below the strike width and contracts >= 1, the final_pnl
\* of a settlement at any price lies between -max_loss and max_profit, and the
\* between-strikes formula (intrinsic value - initial_cost) * contracts gives
\* -max_loss at the strike where the intrinsic value is 0 and max_profit at
\* the strike where it is the width.
C26_SettlementWithinCaps ==
  \A t \in Callers :
    AtReturn(t, "calculate_strategy_result") =>
      LET s == loc[t].tmp[1]
          a == loc[t].tmp[3]
          width == s.upper_strike - s.lower_strike
          final_pnl == loc[t].val[1]
      IN (s.lower_strike < s.upper_strike /\ NetDebit(a) > 0 /\ NetDebit(a) < width
            /\ s.contracts >= 1) =>
           /\ -s.max_loss <= final_pnl
           /\ final_pnl <= s.max_profit
           /\ (0 - s.initial_cost) * s.contracts = -s.max_loss
           /\ (width - s.initial_cost) * s.contracts = s.max_profit

\* C27: for every record the engine accepted and every settlement price the
\* result is PROFIT, LOSS or BREAKEVEN as final_pnl is positive, negative or
\* zero.
C27_ResultAgreesWithSign ==
  \A t \in Callers :
    AtReturn(t, "calculate_strategy_result") =>
      loc[t].val[2] = BySign(loc[t].val[1])

\* C28: at every moment at most one loop thread is live (started and not
\* yet ended), whatever start_monitoring and stop_monitoring calls were made.
C28_AtMostOneLiveLoop ==
  \A l, m \in Loops : (Live(l) /\ Live(m)) => l = m

\* How many times the record was handed to on_strategy_completed in the
\* cycles now under way: _on_strategies_completed calls it once for each
\* record of the list it is invoked with.
Deliveries(id) ==
  Cardinality({w \in Loops \X (1..MaxCallbacks) :
                 /\ w[2] <= Len(invoked[w[1]])
                 /\ invoked[w[1]][w[2]][1] = "engine"
                 /\ id \in SeqIds(invoked[w[1]][w[2]][2])})

\* C29: every record a pass completes is handed to the engine's
\* on_strategy_completed exactly once: by the end of the dispatch of the
\* polling cycle that completed it, or by the time the manual check that
\* completed it returns.
C29_DeliveredExactlyOnce ==
  /\ \A l \in Loops :
       DispatchOver(l) => \A id \in SeqIds(loc[l].val) : Deliveries(id) = 1
  /\ \A t \in Callers :
       AtReturn(t, "process_expired_strategies") =>
         \A id \in loc[t].val : Deliveries(id) = 1

\* C30: the active set never holds two entries with the same record id,
\* however add_strategy, the load of start_automated_backtesting and the
\* passes interleave.
C30_NoDuplicateIds ==
  \A id \in Ids : Count(active, id) <= 1

====
